---------------------------- MODULE Spec2Model ----------------------------
(***************************************************************************)
(* Attendance Session Engine of the face-attendance system.                *)
(*                                                                         *)
(* The store (MySQL, tables attendance_students and attendance_staff of    *)
(* db.py) is shared by the terminals running main.py and by the            *)
(* daily_cleanup.py script.  Every Controller operation of util.py opens   *)
(* its own connection (autocommit off) and is modelled statement by        *)
(* statement: a step is one SQL statement together with the commit that    *)
(* follows it, so that the SELECT and the INSERT/UPDATE of one operation   *)
(* can interleave with the statements of other connections.  A statement   *)
(* that writes is taken together with its commit: InnoDB keeps the row     *)
(* locked until then, so no other connection sees or passes the write in   *)
(* between.  The student portal works on attendance_students alone and the *)
(* staff portal on attendance_staff alone; the terminals are taken to stay *)
(* in the portal they opened.  The server is up, down (no connection can   *)
(* be opened) or failing (a statement raises); generate_course_report of   *)
(* main.py and of generate_report.py read both tables under one snapshot.  *)
(* Table class_schedule is seeded by init_database of db.py and read by    *)
(* get_class_schedule; handle_attendance of main.py puts the liveness      *)
(* test, the recognition and the confirmation or verification of the       *)
(* identity in front of every Controller call.  add_student and add_staff  *)
(* of util.py write tables students and staff and reload the lists of      *)
(* known ids the terminal keeps in memory.                                 *)
(***************************************************************************)
EXTENDS Integers, Sequences, FiniteSets, TLC

(***************************************************************************)
(* Bounds of the model.                                                    *)
(***************************************************************************)
MaxClock == 2   \* the times of day are 1..MaxClock
MaxDate == 2    \* the dates are 1..MaxDate
MaxRows == 2    \* AUTO_INCREMENT ids handed out per table

(***************************************************************************)
(* Identities, class hours and connections.                                *)
(***************************************************************************)
Students == {"s1", "s2"}
Staff == {"t1"}
\* the staff ids in use when a second member is registered
StaffMembers == Staff \cup {"t2"}
\* hour_name of the seeded slots, numbered in start_time order
Hours == {1, 2}
\* the terminals (instances of main.py) that call the Controller
Procs == {"p1", "p2"}
\* the course ids typed into the report window: c1 is taught, c9 is not
Courses == {"c1", "c9"}
\* rows of table staff: every staff member teaches one course
staff_rows == {[staff_id |-> t, course_id |-> "c1"] : t \in Staff}
\* rows of table student_enrollment
student_enrollment == {[reg_no |-> s, course_id |-> "c1"] : s \in Students}

\* SQL NULL of the nullable column time_out
NULL == 0

Dates == 1..MaxDate

\* a local variable that holds nothing yet
None == [success |-> FALSE, message |-> "-"]

\* the report window before a report is generated
NoReport == [kind |-> "-"]

\* main.py: ENABLE_LIVENESS_CHECK = True
ENABLE_LIVENESS_CHECK == TRUE

\* no request of handle_attendance is under way
NoRequest == [outcome |-> "-"]

\* the exit status of a process that has not ended
NOT_EXITED == -1
\* the exit status of a script that runs to its end
EXIT_SUCCESS == 0

VARIABLES
    attendance_students, \* rows of table attendance_students
    attendance_staff,    \* rows of table attendance_staff
    next_student_id,     \* AUTO_INCREMENT of attendance_students.id
    next_staff_id,       \* AUTO_INCREMENT of attendance_staff.id
    today,               \* date.today()
    clock,               \* datetime.now() as a time of day
    current_user_type,   \* App.current_user_type: the portal a terminal shows
    pc,                  \* position of each terminal in its operation
    op,                  \* the operation a terminal is running
    user_id,             \* reg_no / staff_id argument of the operation
    l_today,             \* local variable today of the operation
    session_id,          \* local variable session_id of mark_student_exit
    hour,                \* loop variable hour of on_submit
    selected_hours,      \* list selected_hours of on_submit
    success_msgs,        \* hours on_submit reported as marked
    fail_msgs,           \* hours on_submit reported as failed
    result,              \* (success, message) returned by the last call
    cleanup_pc,          \* position of daily_cleanup.py
    printed,             \* the last report a cleanup phase printed
    exit_code,           \* exit status of the daily_cleanup.py process
    server,              \* the MySQL server: "up", "down" or "failing"
    report_content,      \* the text generate_course_report returned last
    report_text,         \* the text in the window of generate_report.py
    class_schedule,      \* rows of table class_schedule
    request,             \* what handle_attendance found out in a terminal's request
    students,            \* the reg_no of the rows of table students
    staff,               \* the staff_id of the rows of table staff
    known_face_ids_students, \* util.known_face_ids_students of each terminal
    known_face_ids_staff,    \* util.known_face_ids_staff of each terminal
    snapshot,            \* what the connection of load_known_faces reads of table staff
    added                \* what add_student / add_staff returned to a terminal

store == <<attendance_students, attendance_staff, next_student_id, next_staff_id>>
\* what no Controller operation and no cleanup phase changes
\* the tables of the registered identities and each terminal's cache of them
registry == <<students, staff, known_face_ids_students, known_face_ids_staff,
              snapshot, added>>
time == <<today, clock, current_user_type, server, report_content, report_text,
          class_schedule, request, registry>>
batch == <<hour, selected_hours, success_msgs, fail_msgs>>
locals == <<pc, op, user_id, l_today, session_id, result>>
\* the daily_cleanup.py process
script == <<cleanup_pc, printed, exit_code>>
vars == <<attendance_students, attendance_staff, next_student_id, next_staff_id,
          today, clock, current_user_type, pc, op, user_id, l_today, session_id, hour,
          selected_hours, success_msgs, fail_msgs, result, cleanup_pc, printed,
          exit_code, server, report_content, report_text, class_schedule, request,
          students, staff, known_face_ids_students, known_face_ids_staff, snapshot,
          added>>

(***************************************************************************)
(* Results returned by the Controller: (success, message).                 *)
(***************************************************************************)
Ret(ok, msg) == [success |-> ok, message |-> msg]
\* a faulty variant: the text of a business failure returned for no connection
DbErrorAsNoOpenEntry == Ret(FALSE, "No open entry found for today.")

DB_UNAVAILABLE == Ret(FALSE, "DB Error")
DUPLICATE_OPEN_SESSION == Ret(FALSE, "You have already marked ENTRY and haven't EXITED yet for today.")
NO_OPEN_SESSION == Ret(FALSE, "No open entry found for today. You haven't entered (or already exited).")
ENTRY_MARKED == Ret(TRUE, "Entry marked")
EXIT_MARKED == Ret(TRUE, "Exit marked")
DUPLICATE_HOUR_RECORD == Ret(FALSE, "Already marked entry for hour today.")
STAFF_ENTRY_MARKED == Ret(TRUE, "Entry for hour marked.")
STAFF_EXIT_MARKED == Ret(TRUE, "Exit marked successfully.")
STAFF_NO_OPEN_SESSION == Ret(FALSE, "No open entry found for today.")
\* the results of the "except Exception" handlers
ENTRY_ERROR == Ret(FALSE, "Error while marking entry")
EXIT_ERROR == Ret(FALSE, "Error while marking exit")
STAFF_EXIT_ERROR == Ret(FALSE, "str(e)")

\* The server as an operation meets it: "up", it connects and its statements
\* run; "down", pymysql.connect raises and create_connection returns None (a
\* statement on a connection made earlier raises); "failing", it connects and
\* its statements raise a database error
ServerStates == {"up", "down", "failing"}

(***************************************************************************)
(* The queries of util.py.                                                 *)
(***************************************************************************)
\* a faulty variant: the date left out of the WHERE clause
OpenStudentSessionsAnyDate(rows, reg_no, d) ==
    {r \in rows : r.reg_no = reg_no /\ r.time_out = NULL}

\* a faulty variant: "reg_no = %s" left out of the WHERE clause
OpenStudentSessionsOfAnyone(rows, reg_no, d) ==
    {r \in rows : r.date = d /\ r.time_out = NULL}

\* the same SELECT without "AND time_out IS NULL": one session a day
StudentSessionsOfDate(rows, reg_no, d) ==
    {r \in rows : r.reg_no = reg_no /\ r.date = d}

\* WHERE reg_no = %s AND date = %s AND time_out IS NULL
OpenStudentSessions(rows, reg_no, d) ==
    {r \in rows : r.reg_no = reg_no /\ r.date = d /\ r.time_out = NULL}

\* ORDER BY time_in DESC LIMIT 1: the rows the server may return first
\* (rows with equal time_in come in an order the query does not fix)
LatestByTimeIn(rows) ==
    {r \in rows : \A o \in rows : o.time_in <= r.time_in}

\* a faulty variant: now_time bound to time_out as well
InsertClosedStudentSession(rows, id, reg_no, d, now_time) ==
    rows \cup {[id |-> id, reg_no |-> reg_no, date |-> d,
                time_in |-> now_time, time_out |-> now_time]}

\* INSERT INTO attendance_students (reg_no, date, time_in, time_out)
\* VALUES (%s, %s, %s, NULL)
InsertStudentSession(rows, id, reg_no, d, now_time) ==
    rows \cup {[id |-> id, reg_no |-> reg_no, date |-> d,
                time_in |-> now_time, time_out |-> NULL]}

\* UPDATE attendance_students SET time_out = %s WHERE id = %s
CloseStudentSession(rows, id, now_time) ==
    {IF r.id = id THEN [r EXCEPT !.time_out = now_time] ELSE r : r \in rows}

\* a faulty variant: the table created without its unique key
NoUniqueKey(rows, staff_id, d, h) == FALSE

\* a faulty variant: the unique key declared on (staff_id, date) only
UniqueOnStaffAndDate(rows, staff_id, d, h) ==
    \E r \in rows : r.staff_id = staff_id /\ r.date = d

\* the UNIQUE KEY unique_attendance_staff (staff_id, date, hour) rejects the row
UniqueAttendanceStaffViolated(rows, staff_id, d, h) ==
    \E r \in rows : r.staff_id = staff_id /\ r.date = d /\ r.hour = h

\* INSERT INTO attendance_staff (staff_id, date, hour, time_in, status)
\* VALUES (%s, %s, %s, %s, 'Present'); time_out takes its default, NULL
InsertStaffRecord(rows, id, staff_id, d, h, now_time) ==
    rows \cup {[id |-> id, staff_id |-> staff_id, date |-> d, hour |-> h,
                time_in |-> now_time, time_out |-> NULL, status |-> "Present"]}

\* WHERE staff_id = %s AND date = %s AND time_out IS NULL
OpenStaffRecords(rows, staff_id, d) ==
    {r \in rows : r.staff_id = staff_id /\ r.date = d /\ r.time_out = NULL}

\* UPDATE attendance_staff SET time_out = %s ... LIMIT 1, on the row chosen
CloseStaffRecord(rows, id, now_time) ==
    {IF r.id = id THEN [r EXCEPT !.time_out = now_time] ELSE r : r \in rows}

\* a faulty variant: "AND time_out IS NULL" left out of the WHERE clause
MarkAllOfTodayAbsent(rows, d) ==
    {IF r.date = d THEN [r EXCEPT !.status = "Absent"] ELSE r : r \in rows}

\* a faulty variant: the status of today's records set from time_out, Present
\* for the closed ones
MarkTodayByTimeOut(rows, d) ==
    {IF r.date = d
     THEN [r EXCEPT !.status = IF r.time_out = NULL THEN "Absent" ELSE "Present"]
     ELSE r : r \in rows}

\* UPDATE attendance_staff SET status = 'Absent'
\* WHERE date = %s AND time_out IS NULL
MarkOpenStaffAbsent(rows, d) ==
    {IF r.date = d /\ r.time_out = NULL THEN [r EXCEPT !.status = "Absent"] ELSE r
       : r \in rows}

\* a faulty variant: "AND time_out IS NULL" left out of the WHERE clause
DeleteAllOfToday(rows, d) == {r \in rows : r.date # d}

\* a faulty variant: the DELETE limited to one row (LIMIT 1), the oldest
DeleteOneOpenStudentSession(rows, d) ==
    {r \in rows : ~(/\ r.date = d /\ r.time_out = NULL
                    /\ \A o \in rows : (o.date = d /\ o.time_out = NULL) => r.id <= o.id)}

\* DELETE FROM attendance_students WHERE date = %s AND time_out IS NULL
DeleteOpenStudentSessions(rows, d) ==
    {r \in rows : ~(r.date = d /\ r.time_out = NULL)}

\* the hours ticked in the dialog, in the order of hours_to_display
RECURSIVE HoursInOrder(_)
HoursInOrder(hs) ==
    IF hs = {} THEN <<>>
    ELSE LET h == CHOOSE x \in hs : \A y \in hs : x <= y
         IN <<h>> \o HoursInOrder(hs \ {h})

SeqToSet(q) == {q[i] : i \in 1..Len(q)}

(***************************************************************************)
(* The class schedule.  TIME values are kept as the server hands them to   *)
(* the program, in seconds since midnight; hour_name 'Hour n' is n.        *)
(***************************************************************************)
\* 'HH:MM:00' as a TIME value
AtTime(h, m) == (h * 60 + m) * 60

Slot(n, start_time, end_time, entry_deadline) ==
    [id |-> n, hour_name |-> n, start_time |-> start_time, end_time |-> end_time,
     entry_deadline |-> entry_deadline, early_entry_minutes |-> 15]

\* the eight rows init_database inserts
schedule_data ==
    {Slot(1, AtTime(8, 30), AtTime(9, 20), AtTime(9, 15)),
     Slot(2, AtTime(9, 25), AtTime(10, 15), AtTime(10, 10)),
     Slot(3, AtTime(10, 20), AtTime(11, 10), AtTime(11, 5)),
     Slot(4, AtTime(11, 15), AtTime(12, 5), AtTime(12, 0)),
     Slot(5, AtTime(13, 0), AtTime(13, 50), AtTime(13, 45)),
     Slot(6, AtTime(13, 55), AtTime(14, 45), AtTime(14, 40)),
     Slot(7, AtTime(14, 50), AtTime(15, 40), AtTime(15, 35)),
     Slot(8, AtTime(15, 45), AtTime(16, 35), AtTime(16, 30))}

\* datetime.now() at the model's times of day: 08:30 at time 1, and 55
\* minutes more with every tick (09:25 at time 2)
TimeOfDay(c) == AtTime(8, 30) + (c - 1) * 55 * 60

\* the rows inserted again under new ids, the COUNT(*) test left out
SeedAgain(rows) ==
    rows \cup {[r EXCEPT !.id = Cardinality(rows) + r.id] : r \in schedule_data}

\* "SELECT COUNT(*) FROM class_schedule" and, when it is 0, the INSERT
SeedIfEmpty(rows) == IF rows = {} THEN schedule_data ELSE rows

\* a timedelta as a datetime.time: divmod by 3600, then by 60
AsTime(total_seconds) ==
    [hour |-> total_seconds \div 3600,
     minute |-> (total_seconds % 3600) \div 60,
     second |-> (total_seconds % 3600) % 60]

\* ORDER BY start_time
RECURSIVE OrderByStartTime(_)
OrderByStartTime(rows) ==
    IF rows = {} THEN <<>>
    ELSE LET r == CHOOSE x \in rows : \A y \in rows : x.start_time <= y.start_time
         IN <<r>> \o OrderByStartTime(rows \ {r})

\* a row of the cursor with every timedelta converted
Corrected(row) ==
    [hour_name |-> row.hour_name,
     start_time |-> AsTime(row.start_time),
     end_time |-> AsTime(row.end_time),
     entry_deadline |-> AsTime(row.entry_deadline),
     early_entry_minutes |-> row.early_entry_minutes]

\* "for row in schedule_data: ... corrected_schedule.append(row)"
RECURSIVE CorrectedSchedule(_)
CorrectedSchedule(schedule_rows) ==
    IF schedule_rows = <<>> THEN <<>>
    ELSE <<Corrected(Head(schedule_rows))>> \o CorrectedSchedule(Tail(schedule_rows))

\* get_class_schedule(): the rows by start_time, the times converted
GetClassSchedule(rows) == CorrectedSchedule(OrderByStartTime(rows))

\* hours_to_display of prompt_for_staff_hours
HoursToDisplay(rows) ==
    LET schedule == GetClassSchedule(rows)
    IN {schedule[i].hour_name : i \in 1..Len(schedule)}

(***************************************************************************)
(* Initial state: init_database has created empty tables, every terminal   *)
(* shows the portal it opened and the cleanup script is not running.       *)
(***************************************************************************)
Init ==
    /\ attendance_students = {}
    /\ attendance_staff = {}
    /\ next_student_id = 1
    /\ next_staff_id = 1
    /\ today = 1
    /\ clock = 1
    /\ \E t \in {"student", "staff"} : current_user_type = [p \in Procs |-> t]
    /\ pc = [p \in Procs |-> "idle"]
    /\ op = [p \in Procs |-> "-"]
    /\ user_id = [p \in Procs |-> "-"]
    /\ l_today = [p \in Procs |-> 0]
    /\ session_id = [p \in Procs |-> 0]
    /\ hour = [p \in Procs |-> 0]
    /\ selected_hours = [p \in Procs |-> <<>>]
    /\ success_msgs = [p \in Procs |-> <<>>]
    /\ fail_msgs = [p \in Procs |-> <<>>]
    /\ result = [p \in Procs |-> None]
    /\ cleanup_pc = "idle"
    /\ printed = "-"
    /\ exit_code = NOT_EXITED
    /\ server = "up"
    /\ report_content = NoReport
    /\ report_text = NoReport
    /\ class_schedule = schedule_data
    /\ request = [p \in Procs |-> NoRequest]
    /\ students = Students
    /\ staff = Staff
    /\ known_face_ids_students = [p \in Procs |-> Students]
    /\ known_face_ids_staff = [p \in Procs |-> Staff]
    /\ snapshot = [p \in Procs |-> {}]
    /\ added = [p \in Procs |-> "-"]

(***************************************************************************)
(* mark_student_entry(reg_no)                                              *)
(***************************************************************************)
\* db.create_connection() ("DB Error" when it gives no connection) and
\* 1. the SELECT of an open session of (reg_no, today)
StudentEntrySelect(p, reg_no) ==
    /\ pc[p] = "idle"
    /\ current_user_type[p] = "student"
    /\ op' = [op EXCEPT ![p] = "mark_student_entry"]
    /\ user_id' = [user_id EXCEPT ![p] = reg_no]
    /\ CASE server = "down" ->
                /\ pc' = [pc EXCEPT ![p] = "done"]
                /\ result' = [result EXCEPT ![p] = DB_UNAVAILABLE]
                /\ UNCHANGED l_today
        [] server = "failing" ->
                /\ pc' = [pc EXCEPT ![p] = "done"]
                /\ result' = [result EXCEPT ![p] = ENTRY_ERROR]
                /\ l_today' = [l_today EXCEPT ![p] = today]
        [] server = "up" ->
                /\ l_today' = [l_today EXCEPT ![p] = today]
                /\ IF OpenStudentSessions(attendance_students, reg_no, today) # {}
                   THEN /\ pc' = [pc EXCEPT ![p] = "done"]
                        /\ result' = [result EXCEPT ![p] = DUPLICATE_OPEN_SESSION]
                   ELSE /\ pc' = [pc EXCEPT ![p] = "se_insert"]
                        /\ UNCHANGED result
    /\ UNCHANGED <<store, time, batch, session_id, script>>

\* 2. the INSERT of the new session, and the commit; when either raises, the
\* rollback
StudentEntryInsert(p) ==
    /\ pc[p] = "se_insert"
    /\ pc' = [pc EXCEPT ![p] = "done"]
    /\ IF server # "up"
         THEN /\ result' = [result EXCEPT ![p] = ENTRY_ERROR]
              /\ UNCHANGED <<attendance_students, next_student_id>>
         ELSE /\ next_student_id <= MaxRows
              /\ attendance_students' =
                   InsertStudentSession(attendance_students, next_student_id,
                                        user_id[p], l_today[p], clock)
              /\ next_student_id' = next_student_id + 1
              /\ result' = [result EXCEPT ![p] = ENTRY_MARKED]
    /\ UNCHANGED <<attendance_staff, next_staff_id, time, batch, op, user_id,
                   l_today, session_id, script>>

(***************************************************************************)
(* mark_student_exit(reg_no)                                               *)
(***************************************************************************)
\* db.create_connection() and
\* 1. the SELECT of the latest open session of (reg_no, today)
StudentExitSelect(p, reg_no) ==
    /\ pc[p] = "idle"
    /\ current_user_type[p] = "student"
    /\ op' = [op EXCEPT ![p] = "mark_student_exit"]
    /\ user_id' = [user_id EXCEPT ![p] = reg_no]
    /\ CASE server = "down" ->
                /\ pc' = [pc EXCEPT ![p] = "done"]
                /\ result' = [result EXCEPT ![p] = DB_UNAVAILABLE]
                /\ UNCHANGED <<l_today, session_id>>
        [] server = "failing" ->
                /\ pc' = [pc EXCEPT ![p] = "done"]
                /\ result' = [result EXCEPT ![p] = EXIT_ERROR]
                /\ l_today' = [l_today EXCEPT ![p] = today]
                /\ UNCHANGED session_id
        [] server = "up" ->
                /\ l_today' = [l_today EXCEPT ![p] = today]
                /\ LET open == OpenStudentSessions(attendance_students, reg_no, today)
                   IN IF open = {}
                      THEN /\ pc' = [pc EXCEPT ![p] = "done"]
                           /\ result' = [result EXCEPT ![p] = NO_OPEN_SESSION]
                           /\ UNCHANGED session_id
                      ELSE /\ \E open_session \in LatestByTimeIn(open) :
                                session_id' = [session_id EXCEPT ![p] = open_session.id]
                           /\ pc' = [pc EXCEPT ![p] = "sx_update"]
                           /\ UNCHANGED result
    /\ UNCHANGED <<store, time, batch, script>>

\* 2. the UPDATE of time_out WHERE id = session_id, and the commit; when
\* either raises, the rollback
StudentExitUpdate(p) ==
    /\ pc[p] = "sx_update"
    /\ pc' = [pc EXCEPT ![p] = "done"]
    /\ IF server # "up"
         THEN /\ result' = [result EXCEPT ![p] = EXIT_ERROR]
              /\ UNCHANGED attendance_students
         ELSE /\ attendance_students' =
                   CloseStudentSession(attendance_students, session_id[p], clock)
              /\ result' = [result EXCEPT ![p] = EXIT_MARKED]
    /\ UNCHANGED <<attendance_staff, next_student_id, next_staff_id, time,
                   batch, op, user_id, l_today, session_id, script>>

(***************************************************************************)
(* App.prompt_for_staff_hours.on_submit: one mark_staff_entry(staff_id,    *)
(* hour) call for every selected hour.                                     *)
(***************************************************************************)
\* the hours of selected_hours the loop has not reached yet
RemainingHours(hs, h) == SelectSeq(hs, LAMBDA x : x > h)

\* a faulty variant: the loop left at the first call that fails
AfterCallStopsAtFailure(success, rest) ==
    IF ~success \/ rest = <<>> THEN "done" ELSE "for_hour"

\* the loop goes on to the next hour whatever the call returned
AfterCall(success, rest) == IF rest = <<>> THEN "done" ELSE "for_hour"

\* the Submit button is enabled only when some hour is ticked
OnSubmit(p, staff_id, hs) ==
    /\ pc[p] = "idle"
    /\ current_user_type[p] = "staff"
    /\ hs # {}
    /\ hs \subseteq HoursToDisplay(class_schedule)
    /\ op' = [op EXCEPT ![p] = "mark_staff_entry"]
    /\ user_id' = [user_id EXCEPT ![p] = staff_id]
    /\ selected_hours' = [selected_hours EXCEPT ![p] = HoursInOrder(hs)]
    /\ success_msgs' = [success_msgs EXCEPT ![p] = <<>>]
    /\ fail_msgs' = [fail_msgs EXCEPT ![p] = <<>>]
    /\ hour' = [hour EXCEPT ![p] = 0]
    /\ pc' = [pc EXCEPT ![p] = "for_hour"]
    /\ UNCHANGED <<store, time, l_today, session_id, result, script>>

\* one turn of "for hour in selected_hours": mark_staff_entry(staff_id, hour),
\* that is db.create_connection(), the INSERT (rejected by the unique key when a
\* record of (staff_id, today, hour) exists) and the commit; on_submit files the
\* outcome under success_msgs or fail_msgs.  mark_staff_entry handles
\* IntegrityError alone: any other database error leaves it, and on_submit, as
\* an exception
StaffEntry(p) ==
    /\ pc[p] = "for_hour"
    /\ LET h == Head(RemainingHours(selected_hours[p], hour[p]))
           rest == Tail(RemainingHours(selected_hours[p], hour[p]))
       IN /\ hour' = [hour EXCEPT ![p] = h]
          /\ CASE server = "down" ->
                      /\ result' = [result EXCEPT ![p] = DB_UNAVAILABLE]
                      /\ fail_msgs' = [fail_msgs EXCEPT ![p] = Append(fail_msgs[p], h)]
                      /\ pc' = [pc EXCEPT ![p] = AfterCall(FALSE, rest)]
                      /\ UNCHANGED <<attendance_staff, next_staff_id, success_msgs, l_today>>
              [] server = "failing" ->
                      /\ l_today' = [l_today EXCEPT ![p] = today]
                      /\ pc' = [pc EXCEPT ![p] = "raised"]
                      /\ result' = [result EXCEPT ![p] = None]
                      /\ UNCHANGED <<attendance_staff, next_staff_id, success_msgs,
                                     fail_msgs>>
              [] server = "up" ->
                      /\ l_today' = [l_today EXCEPT ![p] = today]
                      /\ IF UniqueAttendanceStaffViolated(attendance_staff, user_id[p], today, h)
                         THEN /\ result' = [result EXCEPT ![p] = DUPLICATE_HOUR_RECORD]
                              /\ fail_msgs' = [fail_msgs EXCEPT ![p] = Append(fail_msgs[p], h)]
                              /\ pc' = [pc EXCEPT ![p] = AfterCall(FALSE, rest)]
                              /\ UNCHANGED <<attendance_staff, next_staff_id, success_msgs>>
                         ELSE /\ next_staff_id <= MaxRows
                              /\ attendance_staff' =
                                   InsertStaffRecord(attendance_staff, next_staff_id,
                                                     user_id[p], today, h, clock)
                              /\ next_staff_id' = next_staff_id + 1
                              /\ result' = [result EXCEPT ![p] = STAFF_ENTRY_MARKED]
                              /\ success_msgs' = [success_msgs EXCEPT ![p] =
                                                    Append(success_msgs[p], h)]
                              /\ pc' = [pc EXCEPT ![p] = AfterCall(TRUE, rest)]
                              /\ UNCHANGED fail_msgs
    /\ UNCHANGED <<attendance_students, next_student_id, time, op, user_id,
                   session_id, selected_hours, script>>

(***************************************************************************)
(* mark_staff_exit(staff_id)                                               *)
(***************************************************************************)
\* db.create_connection() and the UPDATE ... WHERE staff_id = %s AND date = %s
\* AND time_out IS NULL ORDER BY time_in DESC LIMIT 1; the commit when a row
\* was affected
StaffExit(p, staff_id) ==
    /\ pc[p] = "idle"
    /\ current_user_type[p] = "staff"
    /\ op' = [op EXCEPT ![p] = "mark_staff_exit"]
    /\ user_id' = [user_id EXCEPT ![p] = staff_id]
    /\ pc' = [pc EXCEPT ![p] = "done"]
    /\ CASE server = "down" ->
                /\ result' = [result EXCEPT ![p] = DB_UNAVAILABLE]
                /\ UNCHANGED <<attendance_staff, l_today>>
        [] server = "failing" ->
                /\ result' = [result EXCEPT ![p] = STAFF_EXIT_ERROR]
                /\ l_today' = [l_today EXCEPT ![p] = today]
                /\ UNCHANGED attendance_staff
        [] server = "up" ->
                /\ l_today' = [l_today EXCEPT ![p] = today]
                /\ LET open == OpenStaffRecords(attendance_staff, staff_id, today)
                   IN IF open = {}
                      THEN /\ result' = [result EXCEPT ![p] = STAFF_NO_OPEN_SESSION]
                           /\ UNCHANGED attendance_staff
                      ELSE /\ \E r \in LatestByTimeIn(open) :
                                attendance_staff' =
                                  CloseStaffRecord(attendance_staff, r.id, clock)
                           /\ result' = [result EXCEPT ![p] = STAFF_EXIT_MARKED]
    /\ UNCHANGED <<attendance_students, next_student_id, next_staff_id, time,
                   batch, session_id, script>>

(***************************************************************************)
(* daily_cleanup.py, started by hand or by a scheduler: run_daily_cleanup   *)
(* calls the staff phase, then the student phase, and the script ends.  A  *)
(* phase that gets no connection prints that and returns; a phase whose    *)
(* statement or commit raises prints the error, rolls back and returns.    *)
(***************************************************************************)
\* a faulty variant: a failure of the staff phase ends the script
AbortOnFailure(outcome) == IF outcome = "ok" THEN "student" ELSE "exited"

\* run_daily_cleanup goes on to the student phase whatever the staff phase did
AfterStaffPhase(outcome) == "student"

\* cleanup_staff_open_sessions(), first call of a run of the script
CleanupStaffOpenSessions ==
    /\ cleanup_pc \in {"idle", "exited"}
    /\ LET outcome == IF server = "up" THEN "ok" ELSE "failed"
       IN
         /\ attendance_staff' = IF outcome = "ok"
                                THEN MarkOpenStaffAbsent(attendance_staff, today)
                                ELSE attendance_staff
         /\ printed' = IF outcome = "ok" THEN "Staff cleanup done"
                        ELSE "Staff cleanup failed"
         /\ cleanup_pc' = AfterStaffPhase(outcome)
         /\ exit_code' = IF AfterStaffPhase(outcome) = "exited"
                         THEN EXIT_SUCCESS ELSE NOT_EXITED
    /\ UNCHANGED <<attendance_students, next_student_id, next_staff_id, time,
                   locals, batch>>

\* cleanup_student_open_sessions(), then the end of the script: nothing sets
\* an exit status, so the interpreter ends with 0
CleanupStudentOpenSessions ==
    /\ cleanup_pc = "student"
    /\ LET outcome == IF server = "up" THEN "ok" ELSE "failed"
       IN
         /\ attendance_students' = IF outcome = "ok"
                                   THEN DeleteOpenStudentSessions(attendance_students, today)
                                   ELSE attendance_students
         /\ printed' = IF outcome = "ok" THEN "Student cleanup done"
                        ELSE "Student cleanup failed"
    /\ cleanup_pc' = "exited"
    /\ exit_code' = EXIT_SUCCESS
    /\ UNCHANGED <<attendance_staff, next_student_id, next_staff_id, time,
                   locals, batch>>

(***************************************************************************)
(* The caller shows the result and the terminal is back at its menu; after  *)
(* an exception Tk reports it and the terminal is back at its menu too.    *)
(***************************************************************************)
Return(p) ==
    /\ pc[p] \in {"done", "raised"}
    /\ pc' = [pc EXCEPT ![p] = "idle"]
    /\ op' = [op EXCEPT ![p] = "-"]
    /\ user_id' = [user_id EXCEPT ![p] = "-"]
    /\ l_today' = [l_today EXCEPT ![p] = 0]
    /\ session_id' = [session_id EXCEPT ![p] = 0]
    /\ hour' = [hour EXCEPT ![p] = 0]
    /\ selected_hours' = [selected_hours EXCEPT ![p] = <<>>]
    /\ success_msgs' = [success_msgs EXCEPT ![p] = <<>>]
    /\ fail_msgs' = [fail_msgs EXCEPT ![p] = <<>>]
    /\ result' = [result EXCEPT ![p] = None]
    /\ request' = [request EXCEPT ![p] = NoRequest]
    /\ snapshot' = [snapshot EXCEPT ![p] = {}]
    /\ added' = [added EXCEPT ![p] = "-"]
    /\ UNCHANGED <<store, today, clock, current_user_type, server, report_content,
                   report_text, class_schedule, students, staff,
                   known_face_ids_students, known_face_ids_staff, script>>

(***************************************************************************)
(* init_database(), run when main.py starts (and by db.py on its own): the *)
(* tables are created when missing and the schedule is seeded when empty.  *)
(* When two runs both find the schedule empty, the second INSERT fails on  *)
(* the unique hour_name and is rolled back.                                *)
(***************************************************************************)
InitDatabase ==
    /\ class_schedule' = IF server = "up"
                         THEN SeedIfEmpty(class_schedule)
                         ELSE class_schedule
    /\ UNCHANGED <<store, today, clock, current_user_type, server, report_content,
                   report_text, request, registry, locals, batch, script>>

(***************************************************************************)
(* Time passes.                                                            *)
(***************************************************************************)
Tick ==
    /\ clock < MaxClock
    /\ clock' = clock + 1
    /\ UNCHANGED <<store, today, current_user_type, server, report_content, report_text,
                 class_schedule, request, registry, locals, batch,
                 script>>

NextDay ==
    /\ today < MaxDate
    /\ today' = today + 1
    /\ clock' = 1
    /\ UNCHANGED <<store, current_user_type, server, report_content, report_text,
                 class_schedule, request, registry, locals, batch,
                 script>>

(***************************************************************************)
(* The server goes down, starts to fail or recovers.                       *)
(***************************************************************************)
ServerChanges ==
    /\ \E h \in ServerStates \ {server} : server' = h
    /\ UNCHANGED <<store, today, clock, current_user_type, report_content, report_text,
                 class_schedule, request, registry, locals, batch,
                 script>>

(***************************************************************************)
(* generate_course_report of main.py.  The function opens one connection,  *)
(* reads under one snapshot and returns a text; the text is modelled by a  *)
(* record of the values it prints.  Every statement runs inside one try    *)
(* block whose handler turns any exception into an error text.             *)
(***************************************************************************)
CONNECTION_ERROR(course_id) ==
    [kind |-> "Database Connection Error", course_id |-> course_id]
NO_STAFF_FOR_COURSE(course_id) ==
    [kind |-> "Report Error", course_id |-> course_id]
UNEXPECTED_ERROR(course_id) ==
    [kind |-> "An unexpected error occurred", course_id |-> course_id]

\* SELECT name, staff_id FROM staff: the WHERE clause dropped
AnyStaffMember(course_id) == {r.staff_id : r \in staff_rows}
\* SELECT name, staff_id FROM staff WHERE course_id = %s
StaffOfCourse(course_id) ==
    {r.staff_id : r \in {x \in staff_rows : x.course_id = course_id}}

\* SELECT hour, status FROM attendance_staff WHERE staff_id = %s AND date = %s
StaffAttendanceToday(rows, staff_id, d) ==
    {[hour |-> r.hour, status |-> r.status] :
       r \in {x \in rows : x.staff_id = staff_id /\ x.date = d}}

\* a faulty variant: SELECT COUNT(DISTINCT date), a day counted as one class
TotalClassesHeldByDate(rows, staff_id) ==
    Cardinality({r.date : r \in {x \in rows : x.staff_id = staff_id}})

\* SELECT COUNT(*) FROM attendance_staff WHERE staff_id = %s
TotalClassesHeld(rows, staff_id) ==
    Cardinality({r \in rows : r.staff_id = staff_id})

\* SELECT s.reg_no ... JOIN student_enrollment se ... WHERE se.course_id = %s
EnrolledStudents(course_id) ==
    {r.reg_no : r \in {x \in student_enrollment : x.course_id = course_id}}

\* SELECT time_in ... WHERE reg_no = %s AND date = %s: open or closed
DailyStatusOfAnySession(sessions, reg_no, d) ==
    IF \E r \in sessions : r.reg_no = reg_no /\ r.date = d
    THEN "Present"
    ELSE "Absent / Exited"
\* SELECT time_in ... WHERE reg_no = %s AND date = %s AND time_out IS NULL
DailyStatus(sessions, reg_no, d) ==
    IF \E r \in sessions : r.reg_no = reg_no /\ r.date = d /\ r.time_out = NULL
    THEN "Present"
    ELSE "Absent / Exited"

\* the same count with a LEFT JOIN: a record counts without any session
ClassesAttendedWithoutSession(sessions, rows, reg_no, staff_id) ==
    Cardinality({<<t.date, t.hour>> : t \in {x \in rows : x.staff_id = staff_id}})

\* the same count with the ON clause reduced to s.date = t.date AND s.reg_no = %s
ClassesAttendedAtAnyTime(sessions, rows, reg_no, staff_id) ==
    Cardinality({<<t.date, t.hour>> :
                   t \in {x \in rows :
                            /\ x.staff_id = staff_id
                            /\ \E r \in sessions :
                                 r.date = x.date /\ r.reg_no = reg_no}})

\* SELECT COUNT(DISTINCT t.date, t.hour) FROM attendance_staff t JOIN
\* attendance_students s ON s.date = t.date AND s.reg_no = %s AND
\* (t.time_out IS NULL OR s.time_in <= t.time_out) WHERE t.staff_id = %s
ClassesAttended(sessions, rows, reg_no, staff_id) ==
    Cardinality({<<t.date, t.hour>> :
                   t \in {x \in rows :
                            /\ x.staff_id = staff_id
                            /\ \E r \in sessions :
                                 /\ r.date = x.date
                                 /\ r.reg_no = reg_no
                                 /\ (x.time_out = NULL \/ r.time_in <= x.time_out)}})

\* the same with the division done on integers
PercentageOfWholeQuotient(classes_attended, total_classes_held) ==
    (classes_attended \div total_classes_held) * 10000

\* (classes_attended / total_classes_held) * 100 printed with two decimals,
\* in hundredths of a percent, a tie rounded to the even digit
Percentage(classes_attended, total_classes_held) ==
    LET q == (classes_attended * 10000) \div total_classes_held
        r == (classes_attended * 10000) % total_classes_held
    IN IF 2 * r > total_classes_held \/ (2 * r = total_classes_held /\ q % 2 = 1)
       THEN q + 1
       ELSE q

\* the lines of one enrolled student
StudentLines(sessions, rows, reg_no, staff_id, d) ==
    LET total_classes_held == TotalClassesHeld(rows, staff_id)
        classes_attended == ClassesAttended(sessions, rows, reg_no, staff_id)
    IN IF total_classes_held > 0
       THEN [daily_status |-> DailyStatus(sessions, reg_no, d),
             overall |-> "classes",
             classes_attended |-> classes_attended,
             percentage |-> Percentage(classes_attended, total_classes_held)]
       ELSE [daily_status |-> DailyStatus(sessions, reg_no, d),
             overall |-> "N/A"]

ReportText(sessions, rows, course_id, staff_id, d) ==
    LET enrolled_students == EnrolledStudents(course_id)
        present_today_count ==
            Cardinality({s \in enrolled_students :
                           DailyStatus(sessions, s, d) = "Present"})
    IN IF enrolled_students = {}
       THEN [kind |-> "report",
             course_id |-> course_id,
             staff_id |-> staff_id,
             staff_attendance_today |-> StaffAttendanceToday(rows, staff_id, d),
             total_classes_held |-> TotalClassesHeld(rows, staff_id)]
       ELSE [kind |-> "report",
             course_id |-> course_id,
             staff_id |-> staff_id,
             staff_attendance_today |-> StaffAttendanceToday(rows, staff_id, d),
             total_classes_held |-> TotalClassesHeld(rows, staff_id),
             students |-> [s \in enrolled_students |->
                             StudentLines(sessions, rows, s, staff_id, d)],
             present_today_count |-> present_today_count,
             absent_today_count |->
                 Cardinality(enrolled_students) - present_today_count]

\* the report followed by the DELETE of today's open sessions
GenerateCourseReportAndDelete(course_id) ==
    /\ CASE server = "down" ->
             report_content' = CONNECTION_ERROR(course_id)
         [] server = "failing" ->
             report_content' = UNEXPECTED_ERROR(course_id)
         [] server = "up" ->
             IF StaffOfCourse(course_id) = {}
             THEN report_content' = NO_STAFF_FOR_COURSE(course_id)
             ELSE \E staff_id \in StaffOfCourse(course_id) :
                    report_content' = ReportText(attendance_students, attendance_staff,
                                                 course_id, staff_id, today)
    /\ attendance_students' = DeleteOpenStudentSessions(attendance_students, today)
    /\ UNCHANGED <<attendance_staff, next_student_id, next_staff_id, today, clock,
                   current_user_type, server, report_text, class_schedule, request, registry,
                   locals,
                   batch, script>>

GenerateCourseReport(course_id) ==
    /\ CASE server = "down" ->
             report_content' = CONNECTION_ERROR(course_id)
         [] server = "failing" ->
             report_content' = UNEXPECTED_ERROR(course_id)
         [] server = "up" ->
             IF StaffOfCourse(course_id) = {}
             THEN report_content' = NO_STAFF_FOR_COURSE(course_id)
             ELSE \E staff_id \in StaffOfCourse(course_id) :
                    report_content' = ReportText(attendance_students, attendance_staff,
                                                 course_id, staff_id, today)
    /\ UNCHANGED <<store, today, clock, current_user_type, server, report_text,
                   class_schedule, request, registry, locals, batch, script>>

\* the Generate Report button of the report window
DoGenerate == \E course_id \in Courses : GenerateCourseReport(course_id)

(***************************************************************************)
(* generate_course_report of generate_report.py, the report program that   *)
(* runs on its own.  It differs from the report of main.py in the two      *)
(* overall counts: a class is a date on which the staff member has a       *)
(* record, and a student attended a class when they have a session on that *)
(* date.                                                                   *)
(***************************************************************************)
\* SELECT DISTINCT date FROM attendance_staff WHERE staff_id = %s
ClassDates(rows, staff_id) ==
    {r.date : r \in {x \in rows : x.staff_id = staff_id}}

\* SELECT COUNT(DISTINCT date) FROM attendance_students
\* WHERE reg_no = %s AND date IN (class_dates)
DatesAttended(sessions, class_dates, reg_no) ==
    Cardinality({r.date : r \in {x \in sessions :
                                    x.reg_no = reg_no /\ x.date \in class_dates}})

ReportAppStudentLines(sessions, rows, reg_no, staff_id, d) ==
    LET class_dates == ClassDates(rows, staff_id)
        total_classes_held == Cardinality(class_dates)
        classes_attended == DatesAttended(sessions, class_dates, reg_no)
    IN IF total_classes_held > 0
       THEN [daily_status |-> DailyStatus(sessions, reg_no, d),
             overall |-> "classes",
             classes_attended |-> classes_attended,
             percentage |-> Percentage(classes_attended, total_classes_held)]
       ELSE [daily_status |-> DailyStatus(sessions, reg_no, d),
             overall |-> "N/A"]

ReportAppText(sessions, rows, course_id, staff_id, d) ==
    LET enrolled_students == EnrolledStudents(course_id)
        present_today_count ==
            Cardinality({s \in enrolled_students :
                           DailyStatus(sessions, s, d) = "Present"})
    IN IF enrolled_students = {}
       THEN [kind |-> "report",
             course_id |-> course_id,
             staff_id |-> staff_id,
             staff_attendance_today |-> StaffAttendanceToday(rows, staff_id, d),
             total_classes_held |-> Cardinality(ClassDates(rows, staff_id))]
       ELSE [kind |-> "report",
             course_id |-> course_id,
             staff_id |-> staff_id,
             staff_attendance_today |-> StaffAttendanceToday(rows, staff_id, d),
             total_classes_held |-> Cardinality(ClassDates(rows, staff_id)),
             students |-> [s \in enrolled_students |->
                             ReportAppStudentLines(sessions, rows, s, staff_id, d)],
             present_today_count |-> present_today_count,
             absent_today_count |->
                 Cardinality(enrolled_students) - present_today_count]

ReportAppGenerateCourseReport(course_id) ==
    /\ CASE server = "down" ->
             report_text' = CONNECTION_ERROR(course_id)
         [] server = "failing" ->
             report_text' = UNEXPECTED_ERROR(course_id)
         [] server = "up" ->
             IF StaffOfCourse(course_id) = {}
             THEN report_text' = NO_STAFF_FOR_COURSE(course_id)
             ELSE \E staff_id \in StaffOfCourse(course_id) :
                    report_text' = ReportAppText(attendance_students, attendance_staff,
                                                 course_id, staff_id, today)
    /\ UNCHANGED <<store, today, clock, current_user_type, server, report_content,
                   class_schedule, request, registry, locals, batch, script>>

\* the Generate Report button of ReportApp
DisplayReport == \E course_id \in Courses : ReportAppGenerateCourseReport(course_id)

(***************************************************************************)
(* handle_attendance(attendance_type) of main.py, up to the call of the    *)
(* Controller: the liveness test, the recognition, the look-up of the      *)
(* recognised identity, the confirmation dialog and, when the user says    *)
(* no, handle_misidentification: the identity typed in, verified against   *)
(* the frame and looked up.  What the camera shows and what the user       *)
(* answers are inputs; the step keeps them in request.                     *)
(***************************************************************************)
\* known_face_ids_students / known_face_ids_staff
KnownFaceIds(user_type) == IF user_type = "student" THEN Students ELSE Staff

\* what recognize(frame, user_type) can return
RecognizeResults(user_type) ==
    KnownFaceIds(user_type) \cup {"no_persons_found", "unknown_person"}

\* what the user can type as their identity ("" when the dialog is cancelled)
ManualIds(user_type) == KnownFaceIds(user_type) \cup {"", "x9"}

\* verify_face taken to accept whatever the frame shows
VerifyFaceOfAnyone(user_type, id, matches) == TRUE

\* verify_face / verify_staff_face: False for an identity without a known
\* face, else whether the face of the frame matches that identity's
VerifyFace(user_type, id, matches) == id \in KnownFaceIds(user_type) /\ matches

\* get_student_by_reg_no / get_staff_by_id: None without a connection, an
\* exception when the query fails, else the row if there is one
GetById(user_type, id) ==
    CASE server = "down" -> "None"
      [] server = "failing" -> "raised"
      [] server = "up" -> IF id \in KnownFaceIds(user_type) THEN "row" ELSE "None"

\* a request that ended without a call: handle_attendance returned after
\* its message ("returned"), or a look-up raised ("raised")
Ended(outcome) == [outcome |-> outcome]

\* a request that goes on to mark_student_attendance / mark_staff_attendance
\* for call_user_id, with what it was let through on
Passed(attendance_type, live, recognized, confirm, manual_id, matches, call_user_id) ==
    [outcome |-> "call", attendance_type |-> attendance_type, live |-> live,
     user_id |-> recognized, record |-> "row", confirm |-> confirm,
     manual_id |-> manual_id, matches |-> matches, call_user_id |-> call_user_id]

HandleMisidentification(user_type, attendance_type, live, recognized, manual_id, matches) ==
    IF manual_id = ""
    THEN Ended("returned")
    ELSE IF ~VerifyFace(user_type, manual_id, matches)
    THEN Ended("returned")
    ELSE IF GetById(user_type, manual_id) = "raised"
    THEN Ended("raised")
    ELSE IF GetById(user_type, manual_id) = "None"
    THEN Ended("returned")
    ELSE Passed(attendance_type, live, recognized, FALSE, manual_id, matches, manual_id)

HandleAttendance(p, attendance_type, live, recognized, confirm, manual_id, matches) ==
    /\ pc[p] = "idle"
    /\ request[p].outcome # "call"
    /\ LET user_type == current_user_type[p]
       IN request' = [request EXCEPT ![p] =
            IF ENABLE_LIVENESS_CHECK /\ live # 1
            THEN Ended("returned")
            ELSE IF recognized \in {"no_persons_found", "unknown_person"}
            THEN Ended("returned")
            ELSE IF GetById(user_type, recognized) = "raised"
            THEN Ended("raised")
            ELSE IF GetById(user_type, recognized) = "None"
            THEN Ended("returned")
            ELSE IF confirm
            THEN Passed(attendance_type, live, recognized, TRUE, "", FALSE, recognized)
            ELSE HandleMisidentification(user_type, attendance_type, live, recognized,
                                         manual_id, matches)]
    /\ UNCHANGED <<store, today, clock, current_user_type, server, report_content,
                   report_text, class_schedule, registry, locals, batch, script>>

\* mark_student_attendance / mark_staff_attendance: the call of the
\* Controller that ends a request which passed
MarkAttendance(p) ==
    /\ request[p].outcome = "call"
    /\ CASE current_user_type[p] = "student" /\ request[p].attendance_type = "entry" ->
               StudentEntrySelect(p, request[p].call_user_id)
         [] current_user_type[p] = "student" /\ request[p].attendance_type = "exit" ->
               StudentExitSelect(p, request[p].call_user_id)
         [] current_user_type[p] = "staff" /\ request[p].attendance_type = "entry" ->
               \E hs \in SUBSET Hours : OnSubmit(p, request[p].call_user_id, hs)
         [] current_user_type[p] = "staff" /\ request[p].attendance_type = "exit" ->
               StaffExit(p, request[p].call_user_id)

\* the Mark Entry / Mark Exit buttons of a portal.  What is not asked is not
\* answered: the frame is recognised only when it is live, the dialogs come
\* up only for a recognised identity, and the typed identity is verified only
\* when the user said no and typed one
PressMark ==
    \E p \in Procs, attendance_type \in {"entry", "exit"}, live \in {0, 1} :
    \E recognized \in IF live = 1
                      THEN RecognizeResults(current_user_type[p])
                      ELSE {"no_persons_found"} :
    \E confirm \in IF recognized \in KnownFaceIds(current_user_type[p])
                   THEN BOOLEAN
                   ELSE {FALSE} :
    \E manual_id \in IF recognized \in KnownFaceIds(current_user_type[p]) /\ ~confirm
                     THEN ManualIds(current_user_type[p])
                     ELSE {""} :
    \E matches \in IF manual_id = "" THEN {FALSE} ELSE BOOLEAN :
       HandleAttendance(p, attendance_type, live, recognized, confirm, manual_id, matches)

\* the requests of the terminals from the button to the end of the call
GateNext ==
    \/ PressMark
    \/ \E p \in Procs : MarkAttendance(p)
    \/ \E p \in Procs : StudentEntryInsert(p)
    \/ \E p \in Procs : StudentExitUpdate(p)
    \/ \E p \in Procs : StaffEntry(p)
    \/ \E p \in Procs : Return(p)
    \/ ServerChanges

SpecGate == Init /\ [][GateNext]_vars

(***************************************************************************)
(* Registration: save_student / save_staff of main.py call add_student /   *)
(* add_staff of util.py, which insert the row, commit and then call        *)
(* load_known_faces.  load_known_faces opens a connection of its own and   *)
(* replaces the lists of the terminal it runs in: the student lists after  *)
(* its first SELECT, the staff lists after its second, both read of one    *)
(* snapshot.  It returns without a word when it gets no connection and     *)
(* prints the error when a SELECT raises; add_student / add_staff return   *)
(* True whatever it did.  The lists are kept as sets of ids.               *)
(***************************************************************************)
\* the register numbers typed into "Register New Student"
RegNos == Students \cup {"s3"}

\* INSERT INTO students: the UNIQUE reg_no rejects a register number in use
StudentsUniqueViolated(rows, reg_no) == reg_no \in rows

\* INSERT INTO staff: the UNIQUE staff_id rejects a staff id in use
StaffUniqueViolated(rows, staff_id) == staff_id \in rows

\* add_student(name, reg_no, department, encoding), up to its commit.  Only
\* IntegrityError is handled: any other database error leaves the function
AddStudent(p, reg_no) ==
    /\ pc[p] = "idle"
    /\ current_user_type[p] = "student"
    /\ op' = [op EXCEPT ![p] = "add_student"]
    /\ user_id' = [user_id EXCEPT ![p] = reg_no]
    /\ CASE server = "down" ->
                /\ pc' = [pc EXCEPT ![p] = "done"]
                /\ added' = [added EXCEPT ![p] = "False"]
                /\ UNCHANGED students
        [] server = "failing" ->
                /\ pc' = [pc EXCEPT ![p] = "raised"]
                /\ UNCHANGED <<students, added>>
        [] server = "up" ->
                IF StudentsUniqueViolated(students, reg_no)
                THEN /\ pc' = [pc EXCEPT ![p] = "done"]
                     /\ added' = [added EXCEPT ![p] = "False"]
                     /\ UNCHANGED students
                ELSE /\ students' = students \cup {reg_no}
                     /\ pc' = [pc EXCEPT ![p] = "load_known_faces"]
                     /\ UNCHANGED added
    /\ UNCHANGED <<store, today, clock, current_user_type, server, report_content,
                   report_text, class_schedule, request, staff,
                   known_face_ids_students, known_face_ids_staff, snapshot,
                   batch, l_today, session_id, result, script>>

\* add_staff(name, staff_id, course_id, subject, encoding), up to its commit
AddStaff(p, staff_id) ==
    /\ pc[p] = "idle"
    /\ current_user_type[p] = "staff"
    /\ op' = [op EXCEPT ![p] = "add_staff"]
    /\ user_id' = [user_id EXCEPT ![p] = staff_id]
    /\ CASE server = "down" ->
                /\ pc' = [pc EXCEPT ![p] = "done"]
                /\ added' = [added EXCEPT ![p] = "False"]
                /\ UNCHANGED staff
        [] server = "failing" ->
                /\ pc' = [pc EXCEPT ![p] = "raised"]
                /\ UNCHANGED <<staff, added>>
        [] server = "up" ->
                IF StaffUniqueViolated(staff, staff_id)
                THEN /\ pc' = [pc EXCEPT ![p] = "done"]
                     /\ added' = [added EXCEPT ![p] = "False"]
                     /\ UNCHANGED staff
                ELSE /\ staff' = staff \cup {staff_id}
                     /\ pc' = [pc EXCEPT ![p] = "load_known_faces"]
                     /\ UNCHANGED added
    /\ UNCHANGED <<store, today, clock, current_user_type, server, report_content,
                   report_text, class_schedule, request, students,
                   known_face_ids_students, known_face_ids_staff, snapshot,
                   batch, l_today, session_id, result, script>>

\* load_known_faces(): db.create_connection() and "SELECT reg_no,
\* face_encoding FROM students"
LoadStudents(p) ==
    /\ pc[p] = "load_known_faces"
    /\ IF server = "up"
       THEN /\ known_face_ids_students' = [known_face_ids_students EXCEPT ![p] = students]
            /\ snapshot' = [snapshot EXCEPT ![p] = staff]
            /\ pc' = [pc EXCEPT ![p] = "load_staff"]
            /\ UNCHANGED added
       ELSE /\ pc' = [pc EXCEPT ![p] = "done"]
            /\ added' = [added EXCEPT ![p] = "True"]
            /\ UNCHANGED <<known_face_ids_students, snapshot>>
    /\ UNCHANGED <<store, today, clock, current_user_type, server, report_content,
                   report_text, class_schedule, request, students, staff,
                   known_face_ids_staff, batch, op, user_id, l_today, session_id,
                   result, script>>

\* "SELECT staff_id, face_encoding FROM staff" on the same connection, and the
\* return of add_student / add_staff
LoadStaff(p) ==
    /\ pc[p] = "load_staff"
    /\ pc' = [pc EXCEPT ![p] = "done"]
    /\ added' = [added EXCEPT ![p] = "True"]
    /\ known_face_ids_staff' =
         IF server = "up"
         THEN [known_face_ids_staff EXCEPT ![p] = snapshot[p]]
         ELSE known_face_ids_staff
    /\ UNCHANGED <<store, today, clock, current_user_type, server, report_content,
                   report_text, class_schedule, request, students, staff,
                   known_face_ids_students, snapshot, batch, op, user_id, l_today,
                   session_id, result, script>>

Registration ==
    \/ \E p \in Procs, reg_no \in RegNos : AddStudent(p, reg_no)
    \/ \E p \in Procs, staff_id \in StaffMembers : AddStaff(p, staff_id)
    \/ \E p \in Procs : LoadStudents(p)
    \/ \E p \in Procs : LoadStaff(p)

\* registrations on both terminals, the server up, down or failing
RegistrationNext ==
    \/ Registration
    \/ \E p \in Procs : Return(p)
    \/ ServerChanges

SpecRegistration == Init /\ [][RegistrationNext]_vars

Cleanup ==
    \/ CleanupStaffOpenSessions
    \/ CleanupStudentOpenSessions

StudentCalls ==
    \/ \E p \in Procs, reg_no \in Students : StudentEntrySelect(p, reg_no)
    \/ \E p \in Procs : StudentEntryInsert(p)
    \/ \E p \in Procs, reg_no \in Students : StudentExitSelect(p, reg_no)
    \/ \E p \in Procs : StudentExitUpdate(p)

StaffCalls ==
    \/ \E p \in Procs, staff_id \in Staff, hs \in SUBSET Hours : OnSubmit(p, staff_id, hs)
    \/ \E p \in Procs : StaffEntry(p)
    \/ \E p \in Procs, staff_id \in Staff : StaffExit(p, staff_id)

\* the student portal, the cleanup script and the passing of time, the server up
StudentNext ==
    \/ StudentCalls
    \/ \E p \in Procs : Return(p)
    \/ Cleanup
    \/ Tick
    \/ NextDay

\* the staff portal, the cleanup script and the passing of time, the server up
StaffNext ==
    \/ StaffCalls
    \/ \E p \in Procs : Return(p)
    \/ Cleanup
    \/ Tick
    \/ NextDay

\* both portals, the server up
ServerUpNext ==
    \/ StudentCalls
    \/ StaffCalls
    \/ \E p \in Procs : Return(p)
    \/ Cleanup
    \/ Tick
    \/ NextDay

\* the Controller on a server that may go down or fail at any moment
FaultsNext ==
    \/ StudentCalls
    \/ StaffCalls
    \/ \E p \in Procs : Return(p)
    \/ ServerChanges

Next ==
    \/ StudentCalls
    \/ StaffCalls
    \/ \E p \in Procs : Return(p)
    \/ Cleanup
    \/ Tick
    \/ NextDay
    \/ ServerChanges
    \/ DoGenerate
    \/ DisplayReport
    \/ InitDatabase
    \/ PressMark
    \/ \E p \in Procs : MarkAttendance(p)
    \/ Registration

StudentPortal == current_user_type = [p \in Procs |-> "student"]
StaffPortal == current_user_type = [p \in Procs |-> "staff"]

InitStudent == Init /\ StudentPortal
InitStaff == Init /\ StaffPortal

Spec == Init /\ [][Next]_vars
SpecStudent == InitStudent /\ [][StudentNext]_vars
SpecStaff == InitStaff /\ [][StaffNext]_vars
SpecServerUp == Init /\ [][ServerUpNext]_vars
SpecFaults == Init /\ [][FaultsNext]_vars

(***************************************************************************)
(* Two terminals press "Mark Entry" once each: the calls may overlap or    *)
(* follow one another, and nothing else touches the store.                 *)
(***************************************************************************)
EntryRaceNext ==
    \/ \E p \in Procs, reg_no \in Students : StudentEntrySelect(p, reg_no)
    \/ \E p \in Procs : StudentEntryInsert(p)
    \/ Tick
    \/ NextDay

SpecEntryRace == InitStudent /\ [][EntryRaceNext]_vars

(***************************************************************************)
(* A student has entered and has exactly one open session; two terminals   *)
(* press "Mark Exit" once each.                                            *)
(***************************************************************************)
InitOneOpenSession ==
    /\ \E reg_no \in Students :
         attendance_students = {[id |-> 1, reg_no |-> reg_no, date |-> 1,
                                 time_in |-> 1, time_out |-> NULL]}
    /\ attendance_staff = {}
    /\ next_student_id = 2
    /\ next_staff_id = 1
    /\ today = 1
    /\ clock = 1
    /\ current_user_type = [p \in Procs |-> "student"]
    /\ pc = [p \in Procs |-> "idle"]
    /\ op = [p \in Procs |-> "-"]
    /\ user_id = [p \in Procs |-> "-"]
    /\ l_today = [p \in Procs |-> 0]
    /\ session_id = [p \in Procs |-> 0]
    /\ hour = [p \in Procs |-> 0]
    /\ selected_hours = [p \in Procs |-> <<>>]
    /\ success_msgs = [p \in Procs |-> <<>>]
    /\ fail_msgs = [p \in Procs |-> <<>>]
    /\ result = [p \in Procs |-> None]
    /\ cleanup_pc = "idle"
    /\ printed = "-"
    /\ exit_code = NOT_EXITED
    /\ server = "up"
    /\ report_content = NoReport
    /\ report_text = NoReport
    /\ class_schedule = schedule_data
    /\ request = [p \in Procs |-> NoRequest]
    /\ students = Students
    /\ staff = Staff
    /\ known_face_ids_students = [p \in Procs |-> Students]
    /\ known_face_ids_staff = [p \in Procs |-> Staff]
    /\ snapshot = [p \in Procs |-> {}]
    /\ added = [p \in Procs |-> "-"]

ExitRaceNext ==
    \/ \E p \in Procs, reg_no \in Students : StudentExitSelect(p, reg_no)
    \/ \E p \in Procs : StudentExitUpdate(p)
    \/ Tick
    \/ NextDay

SpecExitRace == InitOneOpenSession /\ [][ExitRaceNext]_vars

(***************************************************************************)
(* The cleanup script run, and run again, at the end of a day on any store *)
(* the Controller can have left behind, on a server that may go down or    *)
(* fail between the phases.                                                *)
(***************************************************************************)
\* the rows a table can hold under id i: entered at time 1, open or closed
StudentRowsWithId(i) ==
    [id : {i}, reg_no : Students, date : Dates, time_in : {1},
     time_out : {NULL, MaxClock}]

StaffRowsWithId(i) ==
    [id : {i}, staff_id : Staff, date : Dates, hour : Hours, time_in : {1},
     time_out : {NULL, MaxClock}, status : {"Present", "Absent"}]

\* the attendance_students tables of n rows, ids 1..n
RECURSIVE StudentTables(_)
StudentTables(n) ==
    IF n = 0 THEN {{}}
    ELSE {rows \cup {r} : rows \in StudentTables(n - 1), r \in StudentRowsWithId(n)}

\* the attendance_staff tables of n rows, ids 1..n, that keep the unique key
RECURSIVE StaffTables(_)
StaffTables(n) ==
    IF n = 0 THEN {{}}
    ELSE UNION {{rows \cup {r} :
                   r \in {x \in StaffRowsWithId(n) :
                            ~UniqueAttendanceStaffViolated(rows, x.staff_id, x.date, x.hour)}}
                : rows \in StaffTables(n - 1)}

InitAnyStore ==
    /\ \E n \in 0..MaxRows :
         /\ attendance_students \in StudentTables(n)
         /\ next_student_id = n + 1
    /\ \E n \in 0..MaxRows :
         /\ attendance_staff \in StaffTables(n)
         /\ next_staff_id = n + 1
    /\ today = MaxDate
    /\ clock = MaxClock
    /\ \E t \in {"student", "staff"} : current_user_type = [p \in Procs |-> t]
    /\ pc = [p \in Procs |-> "idle"]
    /\ op = [p \in Procs |-> "-"]
    /\ user_id = [p \in Procs |-> "-"]
    /\ l_today = [p \in Procs |-> 0]
    /\ session_id = [p \in Procs |-> 0]
    /\ hour = [p \in Procs |-> 0]
    /\ selected_hours = [p \in Procs |-> <<>>]
    /\ success_msgs = [p \in Procs |-> <<>>]
    /\ fail_msgs = [p \in Procs |-> <<>>]
    /\ result = [p \in Procs |-> None]
    /\ cleanup_pc = "idle"
    /\ printed = "-"
    /\ exit_code = NOT_EXITED
    /\ server = "up"
    /\ report_content = NoReport
    /\ report_text = NoReport
    /\ class_schedule = schedule_data
    /\ request = [p \in Procs |-> NoRequest]
    /\ students = Students
    /\ staff = Staff
    /\ known_face_ids_students = [p \in Procs |-> Students]
    /\ known_face_ids_staff = [p \in Procs |-> Staff]
    /\ snapshot = [p \in Procs |-> {}]
    /\ added = [p \in Procs |-> "-"]

ReconcileNext ==
    \/ Cleanup
    \/ ServerChanges

SpecReconcile == InitAnyStore /\ [][ReconcileNext]_vars

ReportNext ==
    \/ DoGenerate
    \/ ServerChanges

\* reports over every content of the two tables, the server up or not
SpecReport == InitAnyStore /\ [][ReportNext]_vars

\* the rows a table can hold under id i when sessions begin and records end
\* at any time of the day
StudentRowsAtAnyTime(i) ==
    {r \in [id : {i}, reg_no : Students, date : Dates, time_in : 1..MaxClock,
            time_out : {NULL} \cup 1..MaxClock] :
       r.time_out # NULL => r.time_in <= r.time_out}

StaffRowsAtAnyTime(i) ==
    [id : {i}, staff_id : Staff, date : Dates, hour : Hours, time_in : {1},
     time_out : {NULL} \cup 1..MaxClock, status : {"Present", "Absent"}]

RECURSIVE StudentTablesAtAnyTime(_)
StudentTablesAtAnyTime(n) ==
    IF n = 0 THEN {{}}
    ELSE {rows \cup {r} :
            rows \in StudentTablesAtAnyTime(n - 1), r \in StudentRowsAtAnyTime(n)}

RECURSIVE StaffTablesAtAnyTime(_)
StaffTablesAtAnyTime(n) ==
    IF n = 0 THEN {{}}
    ELSE UNION {{rows \cup {r} :
                   r \in {x \in StaffRowsAtAnyTime(n) :
                            ~UniqueAttendanceStaffViolated(rows, x.staff_id, x.date, x.hour)}}
                : rows \in StaffTablesAtAnyTime(n - 1)}

\* the store at the end of the last day, the terminals in the staff portal
InitAnyTimes ==
    /\ \E n \in 0..MaxRows :
         /\ attendance_students \in StudentTablesAtAnyTime(n)
         /\ next_student_id = n + 1
    /\ \E n \in 0..MaxRows :
         /\ attendance_staff \in StaffTablesAtAnyTime(n)
         /\ next_staff_id = n + 1
    /\ today = MaxDate
    /\ clock = MaxClock
    /\ current_user_type = [p \in Procs |-> "staff"]
    /\ pc = [p \in Procs |-> "idle"]
    /\ op = [p \in Procs |-> "-"]
    /\ user_id = [p \in Procs |-> "-"]
    /\ l_today = [p \in Procs |-> 0]
    /\ session_id = [p \in Procs |-> 0]
    /\ hour = [p \in Procs |-> 0]
    /\ selected_hours = [p \in Procs |-> <<>>]
    /\ success_msgs = [p \in Procs |-> <<>>]
    /\ fail_msgs = [p \in Procs |-> <<>>]
    /\ result = [p \in Procs |-> None]
    /\ cleanup_pc = "idle"
    /\ printed = "-"
    /\ exit_code = NOT_EXITED
    /\ server = "up"
    /\ report_content = NoReport
    /\ report_text = NoReport
    /\ class_schedule = schedule_data
    /\ request = [p \in Procs |-> NoRequest]
    /\ students = Students
    /\ staff = Staff
    /\ known_face_ids_students = [p \in Procs |-> Students]
    /\ known_face_ids_staff = [p \in Procs |-> Staff]
    /\ snapshot = [p \in Procs |-> {}]
    /\ added = [p \in Procs |-> "-"]

\* the report of main.py over sessions and records of every timing
SpecReportTimes == InitAnyTimes /\ [][DoGenerate]_vars

\* the two report programs run on the same store, the server up
BothReportsNext ==
    \/ DoGenerate
    \/ DisplayReport

SpecBothReports == InitAnyStore /\ [][BothReportsNext]_vars

\* the report of main.py before, between and after the phases of the cleanup
ReportAndCleanupNext ==
    \/ DoGenerate
    \/ Cleanup

SpecReportAndCleanup == InitAnyStore /\ [][ReportAndCleanupNext]_vars

\* the database before init_database has run for the first time
InitFreshDatabase ==
    /\ attendance_students = {}
    /\ attendance_staff = {}
    /\ next_student_id = 1
    /\ next_staff_id = 1
    /\ today = 1
    /\ clock = 1
    /\ \E t \in {"student", "staff"} : current_user_type = [p \in Procs |-> t]
    /\ pc = [p \in Procs |-> "idle"]
    /\ op = [p \in Procs |-> "-"]
    /\ user_id = [p \in Procs |-> "-"]
    /\ l_today = [p \in Procs |-> 0]
    /\ session_id = [p \in Procs |-> 0]
    /\ hour = [p \in Procs |-> 0]
    /\ selected_hours = [p \in Procs |-> <<>>]
    /\ success_msgs = [p \in Procs |-> <<>>]
    /\ fail_msgs = [p \in Procs |-> <<>>]
    /\ result = [p \in Procs |-> None]
    /\ cleanup_pc = "idle"
    /\ printed = "-"
    /\ exit_code = NOT_EXITED
    /\ server = "up"
    /\ report_content = NoReport
    /\ report_text = NoReport
    /\ class_schedule = {}
    /\ request = [p \in Procs |-> NoRequest]
    /\ students = Students
    /\ staff = Staff
    /\ known_face_ids_students = [p \in Procs |-> Students]
    /\ known_face_ids_staff = [p \in Procs |-> Staff]
    /\ snapshot = [p \in Procs |-> {}]
    /\ added = [p \in Procs |-> "-"]

\* init_database, run any number of times, among the operations of both
\* portals, the cleanup and the report, within one day
ScheduleNext ==
    \/ InitDatabase
    \/ StudentCalls
    \/ StaffCalls
    \/ \E p \in Procs : Return(p)
    \/ Cleanup
    \/ DoGenerate

SpecSchedule == InitFreshDatabase /\ [][ScheduleNext]_vars

\* both portals used for every student and for every registered staff member,
\* the cleanup script and the passing of a day
IdentitiesNext ==
    \/ StudentCalls
    \/ \E p \in Procs, staff_id \in staff, hs \in SUBSET Hours :
          OnSubmit(p, staff_id, hs)
    \/ \E p \in Procs : StaffEntry(p)
    \/ \E p \in Procs, staff_id \in staff : StaffExit(p, staff_id)
    \/ \E p \in Procs : Return(p)
    \/ Cleanup
    \/ Tick

\* the initial state with the second staff member registered
InitSecondStaff ==
    /\ attendance_students = {}
    /\ attendance_staff = {}
    /\ next_student_id = 1
    /\ next_staff_id = 1
    /\ today = 1
    /\ clock = 1
    /\ \E t \in {"student", "staff"} : current_user_type = [p \in Procs |-> t]
    /\ pc = [p \in Procs |-> "idle"]
    /\ op = [p \in Procs |-> "-"]
    /\ user_id = [p \in Procs |-> "-"]
    /\ l_today = [p \in Procs |-> 0]
    /\ session_id = [p \in Procs |-> 0]
    /\ hour = [p \in Procs |-> 0]
    /\ selected_hours = [p \in Procs |-> <<>>]
    /\ success_msgs = [p \in Procs |-> <<>>]
    /\ fail_msgs = [p \in Procs |-> <<>>]
    /\ result = [p \in Procs |-> None]
    /\ cleanup_pc = "idle"
    /\ printed = "-"
    /\ exit_code = NOT_EXITED
    /\ server = "up"
    /\ report_content = NoReport
    /\ report_text = NoReport
    /\ class_schedule = schedule_data
    /\ request = [p \in Procs |-> NoRequest]
    /\ students = Students
    /\ staff = StaffMembers
    /\ known_face_ids_students = [p \in Procs |-> Students]
    /\ known_face_ids_staff = [p \in Procs |-> StaffMembers]
    /\ snapshot = [p \in Procs |-> {}]
    /\ added = [p \in Procs |-> "-"]

SpecIdentities == InitSecondStaff /\ [][IdentitiesNext]_vars

(***************************************************************************)
(* What the claims speak of, said without the operators of the model.      *)
(***************************************************************************)
\* the sessions of (reg_no, d) with time_out unset
OpenSessionsOf(reg_no, d) ==
    {r \in attendance_students : r.reg_no = reg_no /\ r.date = d /\ r.time_out = NULL}

\* the staff records of (staff_id, d) with time_out unset
OpenRecordsOf(staff_id, d) ==
    {r \in attendance_staff : r.staff_id = staff_id /\ r.date = d /\ r.time_out = NULL}

\* the staff records of (staff_id, d, h)
RecordsOf(staff_id, d, h) ==
    {r \in attendance_staff : r.staff_id = staff_id /\ r.date = d /\ r.hour = h}

\* the results that report a failure of the store, not of a business rule
StoreFailures == {DB_UNAVAILABLE, ENTRY_ERROR, EXIT_ERROR, STAFF_EXIT_ERROR}

\* p's call has returned after it ran its check on a server that was up
Returned(p, operation) ==
    /\ pc[p] = "done"
    /\ op[p] = operation
    /\ result[p] \notin StoreFailures

\* this step is p's call of the operation, up to its first statement
Calls(p, operation) ==
    /\ pc[p] = "idle"
    /\ pc'[p] # "idle"
    /\ op'[p] = operation

\* this step is one mark_staff_entry call of p's batch
CallsStaffEntry(p) ==
    /\ pc[p] = "for_hour"
    /\ hour'[p] # hour[p]

(***************************************************************************)
(* C1 (I1): in every reachable state, every (reg_no, date) has at most one *)
(* session with time_out unset, under any interleaving of entries, exits   *)
(* and the cleanup.                                                        *)
(***************************************************************************)
C1_AtMostOneOpenSession ==
    \A reg_no \in Students, d \in Dates :
        Cardinality(OpenSessionsOf(reg_no, d)) <= 1

(***************************************************************************)
(* C2: of two mark_student_entry calls for the same reg_no on the same     *)
(* date, made while the student has no open session, exactly one returns   *)
(* success and the other the failure "already entered, not yet exited".    *)
(***************************************************************************)
C2_OneEntryWins ==
    \A p, q \in Procs :
        ( /\ p # q
          /\ Returned(p, "mark_student_entry")
          /\ Returned(q, "mark_student_entry")
          /\ user_id[p] = user_id[q]
          /\ l_today[p] = l_today[q] )
        => \/ result[p] = ENTRY_MARKED /\ result[q] = DUPLICATE_OPEN_SESSION
           \/ result[q] = ENTRY_MARKED /\ result[p] = DUPLICATE_OPEN_SESSION

(***************************************************************************)
(* C3 (I2): in every reachable state there is at most one staff record per *)
(* (staff_id, date, hour); two mark_staff_entry calls for the same         *)
(* (staff_id, date, hour) never both succeed, and the one that fails as a  *)
(* duplicate fails because the record is there.                            *)
(***************************************************************************)
C3_OneRecordPerStaffHour ==
    /\ \A a, b \in attendance_staff :
          (a.staff_id = b.staff_id /\ a.date = b.date /\ a.hour = b.hour) => a = b
    /\ \A p, q \in Procs :
          ( /\ p # q
            /\ op[p] = "mark_staff_entry" /\ op[q] = "mark_staff_entry"
            /\ user_id[p] = user_id[q] /\ l_today[p] = l_today[q] /\ hour[p] = hour[q] )
          => ~(result[p] = STAFF_ENTRY_MARKED /\ result[q] = STAFF_ENTRY_MARKED)
    /\ \A p \in Procs :
          (op[p] = "mark_staff_entry" /\ result[p] = DUPLICATE_HOUR_RECORD)
          => RecordsOf(user_id[p], l_today[p], hour[p]) # {}

\* two terminals marked the same hour of the same staff member on the same
\* date: one was told it is marked, the other that it was already marked
C3_Witness ==
    \E p, q \in Procs :
        /\ p # q
        /\ op[p] = "mark_staff_entry" /\ op[q] = "mark_staff_entry"
        /\ user_id[p] = user_id[q] /\ l_today[p] = l_today[q] /\ hour[p] = hour[q]
        /\ result[p] = STAFF_ENTRY_MARKED
        /\ result[q] = DUPLICATE_HOUR_RECORD
        /\ Cardinality(RecordsOf(user_id[p], l_today[p], hour[p])) = 1

(***************************************************************************)
(* C4: exit requires entry.  A mark_student_exit or mark_staff_exit call   *)
(* made when the identity has no open row for today returns the failure    *)
(* "no open entry", returns at once and leaves every row of the store      *)
(* unchanged.                                                              *)
(***************************************************************************)
ExitRequiresEntry ==
    \A p \in Procs :
        /\ (Calls(p, "mark_student_exit") /\ OpenSessionsOf(user_id'[p], today) = {})
           => /\ pc'[p] = "done"
              /\ result'[p] = NO_OPEN_SESSION
              /\ UNCHANGED store
        /\ (Calls(p, "mark_staff_exit") /\ OpenRecordsOf(user_id'[p], today) = {})
           => /\ pc'[p] = "done"
              /\ result'[p] = STAFF_NO_OPEN_SESSION
              /\ UNCHANGED store

C4_ExitRequiresEntry == [][ExitRequiresEntry]_vars

\* an exit was refused although the store holds rows of that student: a
\* session closed earlier today and a row left open on an earlier date
C4_Witness ==
    \E p \in Procs :
        /\ Returned(p, "mark_student_exit")
        /\ result[p] = NO_OPEN_SESSION
        /\ \E r \in attendance_students :
              r.reg_no = user_id[p] /\ r.date < l_today[p] /\ r.time_out = NULL
        /\ \E r \in attendance_students :
              r.reg_no = user_id[p] /\ r.date = l_today[p] /\ r.time_out # NULL

\* the same for a staff member
C4_StaffCase ==
    \E p \in Procs :
        /\ Returned(p, "mark_staff_exit")
        /\ result[p] = STAFF_NO_OPEN_SESSION
        /\ \E r \in attendance_staff :
              r.staff_id = user_id[p] /\ r.date < l_today[p] /\ r.time_out = NULL

(***************************************************************************)
(* C5: mark_student_entry(reg_no), run without interference.  Its check    *)
(* changes nothing and, when an open session of (reg_no, today) exists,    *)
(* ends the call with "already entered, not yet exited"; otherwise the     *)
(* call goes on to its insert, which succeeds and adds exactly one row     *)
(* (reg_no, today, time_in = now, time_out unset), every other row         *)
(* unchanged.                                                              *)
(***************************************************************************)
EntryChecksThenInserts ==
    \A p \in Procs :
        /\ Calls(p, "mark_student_entry")
           => /\ UNCHANGED store
              /\ OpenSessionsOf(user_id'[p], today) # {}
                 => /\ pc'[p] = "done"
                    /\ result'[p] = DUPLICATE_OPEN_SESSION
              /\ OpenSessionsOf(user_id'[p], today) = {}
                 => pc'[p] = "se_insert" /\ l_today'[p] = today
        /\ (pc[p] = "se_insert" /\ pc'[p] # "se_insert")
           => /\ pc'[p] = "done"
              /\ result'[p] = ENTRY_MARKED
              /\ \E r \in attendance_students' :
                    /\ \A o \in attendance_students : o.id # r.id
                    /\ r.reg_no = user_id[p]
                    /\ r.date = l_today[p]
                    /\ r.time_in = clock
                    /\ r.time_out = NULL
                    /\ attendance_students' = attendance_students \cup {r}

C5_EntryChecksThenInserts == [][EntryChecksThenInserts]_vars

\* one terminal has entered a student, another was refused for the same
\* student on the same date, and the store holds the one open row
C5_Witness ==
    \E p, q \in Procs :
        /\ Returned(p, "mark_student_entry") /\ result[p] = ENTRY_MARKED
        /\ Returned(q, "mark_student_entry") /\ result[q] = DUPLICATE_OPEN_SESSION
        /\ user_id[p] = user_id[q] /\ l_today[p] = l_today[q]
        /\ Cardinality(OpenSessionsOf(user_id[p], l_today[p])) = 1

(***************************************************************************)
(* C6: a mark_student_exit that returns success has set time_out = now on  *)
(* exactly one row, the open session of (reg_no, today) with the latest    *)
(* time_in, and has left that row's time_in and every other row unchanged. *)
(***************************************************************************)
ExitClosesLatestOpen ==
    \A p \in Procs :
        (pc[p] = "sx_update" /\ pc'[p] = "done" /\ result'[p] = EXIT_MARKED)
        => \E r \in OpenSessionsOf(user_id[p], l_today[p]) :
              /\ \A o \in OpenSessionsOf(user_id[p], l_today[p]) : o.time_in <= r.time_in
              /\ attendance_students' =
                   (attendance_students \ {r}) \cup {[r EXCEPT !.time_out = clock]}

C6_ExitClosesLatestOpen == [][ExitClosesLatestOpen]_vars

(***************************************************************************)
(* C7: a closed session is terminal: once time_out of a row is set, no     *)
(* step of any operation changes that row's time_out again.                *)
(***************************************************************************)
ClosedStaysClosed ==
    \A r \in attendance_students :
        r.time_out # NULL =>
            \A n \in attendance_students' : n.id = r.id => n.time_out = r.time_out

C7_ClosedIsTerminal == [][ClosedStaysClosed]_vars

(***************************************************************************)
(* C8: of two mark_student_exit calls for the same reg_no, made while the  *)
(* student has exactly one open session, exactly one returns success and   *)
(* the other the failure "no open entry".                                  *)
(***************************************************************************)
C8_OneExitWins ==
    \A p, q \in Procs :
        ( /\ p # q
          /\ Returned(p, "mark_student_exit")
          /\ Returned(q, "mark_student_exit")
          /\ user_id[p] = user_id[q]
          /\ l_today[p] = l_today[q]
          /\ \E r \in attendance_students :
                r.reg_no = user_id[p] /\ r.date = l_today[p] )
        => \/ result[p] = EXIT_MARKED /\ result[q] = NO_OPEN_SESSION
           \/ result[q] = EXIT_MARKED /\ result[p] = NO_OPEN_SESSION

(***************************************************************************)
(* C9: a mark_staff_entry(staff_id, hour) call fails as "already marked"   *)
(* exactly when a record of (staff_id, today, hour) exists, and then       *)
(* changes nothing; otherwise it succeeds and inserts exactly one record   *)
(* (staff_id, today, hour, time_in = now, time_out unset, status Present). *)
(***************************************************************************)
StaffEntryInsertsOrRejects ==
    \A p \in Procs :
        CallsStaffEntry(p)
        => /\ (result'[p] = DUPLICATE_HOUR_RECORD)
              <=> (RecordsOf(user_id[p], today, hour'[p]) # {})
           /\ RecordsOf(user_id[p], today, hour'[p]) # {}
              => UNCHANGED store
           /\ RecordsOf(user_id[p], today, hour'[p]) = {}
              => /\ result'[p] = STAFF_ENTRY_MARKED
                 /\ \E r \in attendance_staff' :
                       /\ \A o \in attendance_staff : o.id # r.id
                       /\ r.staff_id = user_id[p]
                       /\ r.date = today
                       /\ r.hour = hour'[p]
                       /\ r.time_in = clock
                       /\ r.time_out = NULL
                       /\ r.status = "Present"
                       /\ attendance_staff' = attendance_staff \cup {r}

C9_StaffEntryInsertsOrRejects == [][StaffEntryInsertsOrRejects]_vars

\* a terminal was told "already marked" for an hour whose record exists, after
\* it had itself marked another hour
C9_Witness ==
    \E p \in Procs :
        /\ op[p] = "mark_staff_entry"
        /\ result[p] = DUPLICATE_HOUR_RECORD
        /\ success_msgs[p] # <<>>
        /\ RecordsOf(user_id[p], l_today[p], hour[p]) # {}

(***************************************************************************)
(* C10: the calls of a batch are independent.  Whatever a call returns,    *)
(* the batch goes on with the next selected hour until every selected hour *)
(* was tried; no call removes a record; every hour reported as marked has  *)
(* its record, and so has every hour that was tried.                       *)
(***************************************************************************)
BatchCallsAreIndependent ==
    /\ \A r \in attendance_staff :
          \E n \in attendance_staff' :
              n.id = r.id /\ n.staff_id = r.staff_id /\ n.date = r.date /\ n.hour = r.hour
    /\ \A p \in Procs :
          CallsStaffEntry(p)
          => /\ \A h \in SeqToSet(selected_hours[p]) :
                   (h > hour[p] /\ h < hour'[p]) => FALSE
             /\ hour'[p] \in SeqToSet(selected_hours[p])
             /\ \E r \in attendance_staff' :
                   r.staff_id = user_id[p] /\ r.date = today /\ r.hour = hour'[p]
             /\ \A h \in SeqToSet(success_msgs'[p]) :
                   \E r \in attendance_staff' : r.staff_id = user_id[p] /\ r.hour = h
             /\ IF \E h \in SeqToSet(selected_hours[p]) : h > hour'[p]
                THEN pc'[p] = "for_hour"
                ELSE /\ pc'[p] = "done"
                     /\ SeqToSet(success_msgs'[p]) \cup SeqToSet(fail_msgs'[p])
                          = SeqToSet(selected_hours[p])

C10_BatchCallsAreIndependent == [][BatchCallsAreIndependent]_vars

\* a batch of two hours is over: the first hour failed as already marked, the
\* second was marked all the same, and both hours have their record
C10_Witness ==
    \E p \in Procs :
        /\ pc[p] = "done"
        /\ op[p] = "mark_staff_entry"
        /\ Len(selected_hours[p]) = 2
        /\ fail_msgs[p] = <<selected_hours[p][1]>>
        /\ success_msgs[p] = <<selected_hours[p][2]>>
        /\ \A h \in SeqToSet(selected_hours[p]) : RecordsOf(user_id[p], l_today[p], h) # {}

(***************************************************************************)
(* C11: when a staff member has several open records for today, one        *)
(* mark_staff_exit call sets time_out = now on exactly one of them, the    *)
(* one created most recently, and leaves every other record as it was,     *)
(* also when the open records come from one batch and carry the same       *)
(* time_in.                                                                *)
(***************************************************************************)
StaffExitClosesMostRecent ==
    \A p \in Procs :
        (Calls(p, "mark_staff_exit") /\ OpenRecordsOf(user_id'[p], today) # {})
        => \E r \in OpenRecordsOf(user_id'[p], today) :
              /\ \A o \in OpenRecordsOf(user_id'[p], today) : o.id <= r.id
              /\ result'[p] = STAFF_EXIT_MARKED
              /\ attendance_staff' =
                   (attendance_staff \ {r}) \cup {[r EXCEPT !.time_out = clock]}

C11_StaffExitClosesMostRecent == [][StaffExitClosesMostRecent]_vars

(***************************************************************************)
(* C12: staff status is monotone.  A staff record has status Present when  *)
(* it is created, and no step of any operation sets the status of a record *)
(* that is Absent back to Present.                                         *)
(***************************************************************************)
StatusIsMonotone ==
    /\ \A n \in attendance_staff' :
          (\A o \in attendance_staff : o.id # n.id) => n.status = "Present"
    /\ \A r \in attendance_staff :
          r.status = "Absent"
          => \A n \in attendance_staff' : n.id = r.id => n.status = "Absent"

C12_StatusIsMonotone == [][StatusIsMonotone]_vars

\* a record the cleanup marked Absent was closed by a later mark_staff_exit and
\* is Absent still, next to a record of the same day that is Present
C12_Witness ==
    \E r, o \in attendance_staff :
        /\ r.status = "Absent" /\ r.time_out # NULL
        /\ o.status = "Present" /\ o.date = r.date

(***************************************************************************)
(* C13: the cleanup is idempotent.  On the store a phase has just          *)
(* committed, running the same phase again on the same date gives the same *)
(* store: its statement affects no row.  The phases write different        *)
(* tables, so a second run of the script after a successful one changes    *)
(* nothing.                                                                *)
(***************************************************************************)
C13_ReconciliationIsIdempotent ==
    /\ (cleanup_pc = "student" /\ printed = "Staff cleanup done")
       => MarkOpenStaffAbsent(attendance_staff, today) = attendance_staff
    /\ (cleanup_pc = "exited" /\ printed = "Student cleanup done")
       => DeleteOpenStudentSessions(attendance_students, today) = attendance_students

\* a run is over that deleted two open sessions of today, on a store where
\* the staff phase has marked an open record of today Absent
C13_Witness ==
    /\ cleanup_pc = "exited"
    /\ printed = "Student cleanup done"
    /\ next_student_id = 3
    /\ attendance_students = {}
    /\ \E r \in attendance_staff :
          r.date = today /\ r.time_out = NULL /\ r.status = "Absent"

(***************************************************************************)
(* C14: the staff phase of the cleanup, when it commits, sets status to    *)
(* Absent on exactly the staff records of today whose time_out is unset;   *)
(* the records of today with time_out set and the records of other dates   *)
(* keep their status, no record is added or removed, no id, staff_id,      *)
(* date, hour, time_in or time_out is changed, and attendance_students is  *)
(* left alone.                                                             *)
(***************************************************************************)
StaffPhaseMarksOpenAbsent ==
    (cleanup_pc # "student" /\ cleanup_pc' = "student" /\ printed' = "Staff cleanup done")
    => /\ \A r \in attendance_staff :
             [r EXCEPT !.status = IF r.date = today /\ r.time_out = NULL
                                  THEN "Absent" ELSE r.status] \in attendance_staff'
       /\ Cardinality(attendance_staff') = Cardinality(attendance_staff)
       /\ UNCHANGED <<attendance_students, next_student_id, next_staff_id>>

C14_StaffPhaseMarksOpenAbsent == [][StaffPhaseMarksOpenAbsent]_vars

\* the staff phase has just run on a day with two records: the one still
\* open is Absent, the one that was exited is Present
C14_Witness ==
    /\ cleanup_pc = "student"
    /\ printed = "Staff cleanup done"
    /\ \E r, o \in attendance_staff :
          /\ r.date = today /\ r.time_out = NULL /\ r.status = "Absent"
          /\ o.date = today /\ o.time_out # NULL /\ o.status = "Present"

(***************************************************************************)
(* C15: the student phase of the cleanup, when it commits, deletes exactly *)
(* the sessions of today whose time_out is unset: the closed sessions of   *)
(* today and every session of another date stay as they are, and after the *)
(* step no session of today is open.  attendance_staff is left alone.      *)
(***************************************************************************)
StudentPhaseDeletesOpen ==
    (cleanup_pc = "student" /\ cleanup_pc' = "exited" /\ printed' = "Student cleanup done")
    => /\ attendance_students' =
             attendance_students \ {r \in attendance_students :
                                      r.date = today /\ r.time_out = NULL}
       /\ \A r \in attendance_students' : r.date = today => r.time_out # NULL
       /\ UNCHANGED <<attendance_staff, next_student_id, next_staff_id>>

C15_StudentPhaseDeletesOpen == [][StudentPhaseDeletesOpen]_vars

\* the student phase has just deleted the one open session of the first day
\* and left the session closed on that day in the store
C15_Witness ==
    /\ cleanup_pc = "exited"
    /\ printed = "Student cleanup done"
    /\ today = 1
    /\ next_student_id = 3
    /\ Cardinality(attendance_students) = 1
    /\ \E r \in attendance_students : r.date = today /\ r.time_out # NULL

(***************************************************************************)
(* C16: the two phases of the cleanup are independent.  Whatever the staff *)
(* phase did (no connection, an error, or its update), the script goes on  *)
(* to the student phase, which takes effect when the server is up then;    *)
(* and whatever the student phase does, it leaves the staff phase's work   *)
(* in attendance_staff as it is.                                           *)
(***************************************************************************)
PhasesAreIndependent ==
    /\ (cleanup_pc \in {"idle", "exited"} /\ cleanup_pc' # cleanup_pc)
       => /\ cleanup_pc' = "student"
          /\ UNCHANGED attendance_students
          /\ server = "up"
             => /\ printed' = "Staff cleanup done"
                /\ \A r \in attendance_staff' :
                      (r.date = today /\ r.time_out = NULL) => r.status = "Absent"
          /\ server # "up"
             => printed' = "Staff cleanup failed" /\ UNCHANGED attendance_staff
    /\ (cleanup_pc = "student" /\ cleanup_pc' # cleanup_pc)
       => /\ cleanup_pc' = "exited"
          /\ UNCHANGED attendance_staff
          /\ server = "up"
             => /\ printed' = "Student cleanup done"
                /\ \A r \in attendance_students' : r.date = today => r.time_out # NULL
          /\ server # "up"
             => printed' = "Student cleanup failed" /\ UNCHANGED attendance_students

C16_PhasesAreIndependent == [][PhasesAreIndependent]_vars

\* a run is over in which the staff phase failed (an open record of today is
\* Present still) and the student phase deleted an open session all the same
C16_Witness ==
    /\ cleanup_pc = "exited"
    /\ printed = "Student cleanup done"
    /\ \E r \in attendance_staff :
          r.date = today /\ r.time_out = NULL /\ r.status = "Present"
    /\ Cardinality(attendance_students) < next_student_id - 1

(***************************************************************************)
(* C17: the cleanup script ends with exit status 0 only when both phases   *)
(* succeeded, and with a non-zero status when the server cannot be reached *)
(* or a phase fails.  Stated on the step that ends the script: the staff   *)
(* phase has printed its report, the student phase prints its own.         *)
(***************************************************************************)
ExitStatusReportsFailure ==
    (cleanup_pc' = "exited" /\ cleanup_pc # "exited")
    => (exit_code' = 0
        <=> /\ printed = "Staff cleanup done"
            /\ printed' = "Student cleanup done")

C17_ExitStatusReportsFailure == [][ExitStatusReportsFailure]_vars

(***************************************************************************)
(* C18: each of mark_student_entry, mark_student_exit, mark_staff_entry    *)
(* and mark_staff_exit, called when the server gives no connection,        *)
(* returns at once the failure (False, "DB Error"), which differs from     *)
(* every failure of a business rule, and leaves the store unchanged.       *)
(***************************************************************************)
NoConnectionIsReported ==
    \A p \in Procs :
        /\ ( /\ server = "down"
             /\ \/ Calls(p, "mark_student_entry")
                \/ Calls(p, "mark_student_exit")
                \/ Calls(p, "mark_staff_exit") )
           => /\ pc'[p] = "done"
              /\ result'[p] = [success |-> FALSE, message |-> "DB Error"]
              /\ UNCHANGED store
        /\ (server = "down" /\ CallsStaffEntry(p))
           => /\ result'[p] = [success |-> FALSE, message |-> "DB Error"]
              /\ UNCHANGED store
        /\ result'[p].message = "DB Error"
           => result'[p] \notin {DUPLICATE_OPEN_SESSION, DUPLICATE_HOUR_RECORD,
                                 NO_OPEN_SESSION, STAFF_NO_OPEN_SESSION}

C18_NoConnectionIsReported == [][NoConnectionIsReported]_vars

\* a student with an open session of today was refused the exit with
\* "DB Error", and the session is open still
C18_Witness ==
    \E p \in Procs :
        /\ pc[p] = "done"
        /\ op[p] = "mark_student_exit"
        /\ result[p] = [success |-> FALSE, message |-> "DB Error"]
        /\ OpenSessionsOf(user_id[p], today) # {}

(***************************************************************************)
(* C19: every Controller operation returns a (success, message) result and *)
(* never raises: a statement that meets a server that is down or failing   *)
(* ends the call with a failure result, and the store is as it was before  *)
(* the call's statement.                                                   *)
(***************************************************************************)
\* this step is a statement of a Controller operation run by p
RunsStatement(p) ==
    \/ pc[p] = "idle" /\ pc'[p] \notin {"idle", "for_hour"}
    \/ pc[p] \in {"se_insert", "sx_update"} /\ pc'[p] # pc[p]
    \/ CallsStaffEntry(p)

OperationsAlwaysReturn ==
    \A p \in Procs :
        /\ RunsStatement(p) => pc'[p] # "raised"
        /\ (RunsStatement(p) /\ server # "up")
           => /\ result'[p].success = FALSE
              /\ result'[p].message # "-"
              /\ UNCHANGED store

C19_OperationsAlwaysReturn == [][OperationsAlwaysReturn]_vars


(***************************************************************************)
(* C20: the course report never raises.  Every press of Generate Report    *)
(* ends with a text in the window: the NO_STAFF_FOR_COURSE error text for  *)
(* a course_id that no staff member teaches, an error text and no report   *)
(* when the server is down or a query fails, and a report of the course    *)
(* only when the server is up and the course has a staff member.           *)
(***************************************************************************)
TaughtCourses == {r.course_id : r \in staff_rows}

ReportNeverRaises ==
    report_content' # report_content
    => /\ report_content'.kind \in {"report", "Report Error",
                                    "Database Connection Error",
                                    "An unexpected error occurred"}
       /\ report_content'.course_id \in Courses
       /\ server = "down"
          => report_content'.kind = "Database Connection Error"
       /\ server = "failing"
          => report_content'.kind = "An unexpected error occurred"
       /\ (server = "up" /\ report_content'.course_id \notin TaughtCourses)
          => report_content'.kind = "Report Error"
       /\ (server = "up" /\ report_content'.course_id \in TaughtCourses)
          => report_content'.kind = "report"

C20_ReportNeverRaises == [][ReportNeverRaises]_vars

\* the window shows the error text of a course nobody teaches while the
\* staff table has attendance records
C20_Witness ==
    /\ report_content.kind = "Report Error"
    /\ report_content.course_id = "c9"
    /\ attendance_staff # {}
    /\ server = "up"

(***************************************************************************)
(* C21: in the course report, total_classes_held is the number of all the  *)
(* attendance_staff rows of the course's staff member over all dates, each *)
(* (date, hour) pair counted once, whatever the status or the time_out of  *)
(* the rows.  Stated of the report of main.py and of the report of         *)
(* generate_report.py, on the step that generates it.                      *)
(***************************************************************************)
\* the rows of the staff member a report names
StaffRowsOf(r) == {x \in attendance_staff : x.staff_id = r.staff_id}

TotalCountsEveryRow(r) ==
    r.kind = "report"
    => /\ r.total_classes_held = Cardinality(StaffRowsOf(r))
       /\ r.total_classes_held =
             Cardinality({<<x.date, x.hour>> : x \in StaffRowsOf(r)})

TotalClassesHeldCountsRows ==
    /\ report_content' # report_content => TotalCountsEveryRow(report_content')
    /\ report_text' # report_text => TotalCountsEveryRow(report_text')

C21_TotalClassesHeldCountsRows == [][TotalClassesHeldCountsRows]_vars

(***************************************************************************)
(* C22: in the course report an enrolled student is Present if and only if *)
(* an open session of (reg_no, today) is in the store when the report is   *)
(* generated.  A student whose sessions of today are all closed, or whose  *)
(* open session the cleanup has deleted, is reported Absent / Exited.      *)
(***************************************************************************)
\* the lines of the enrolled students in a report
StudentsOf(r) == IF "students" \in DOMAIN r THEN DOMAIN r.students ELSE {}

PresentIffOpenSessionToday ==
    (report_content' # report_content /\ report_content'.kind = "report")
    => \A s \in StudentsOf(report_content') :
          /\ report_content'.students[s].daily_status \in {"Present", "Absent / Exited"}
          /\ report_content'.students[s].daily_status = "Present"
             <=> OpenSessionsOf(s, today) # {}

C22_PresentIffOpenSessionToday == [][PresentIffOpenSessionToday]_vars

\* a report made after the cleanup deleted an open session of today: one
\* student has a closed session of today and no student is Present
C22_Witness ==
    /\ report_content.kind = "report"
    /\ cleanup_pc = "exited"
    /\ printed = "Student cleanup done"
    /\ Cardinality(attendance_students) < next_student_id - 1
    /\ \E r \in attendance_students : r.date = today /\ r.time_out # NULL
    /\ \A s \in StudentsOf(report_content) :
          report_content.students[s].daily_status = "Absent / Exited"

(***************************************************************************)
(* C23: in the course report a student's classes_attended is the number of *)
(* distinct (date, hour) pairs of the staff member's records for which the *)
(* student has a session on the same date that began no later than the     *)
(* record's time_out, or has a session on that date while the record's     *)
(* time_out is unset.                                                      *)
(***************************************************************************)
\* the student has a session of the record's date that counts for the record
AttendedRecord(s, t) ==
    \E r \in attendance_students :
       /\ r.reg_no = s
       /\ r.date = t.date
       /\ (t.time_out = NULL \/ r.time_in <= t.time_out)

AttendedPairs(r, s) ==
    {<<t.date, t.hour>> : t \in {x \in StaffRowsOf(r) : AttendedRecord(s, x)}}

ClassesAttendedCountsPairs ==
    (report_content' # report_content /\ report_content'.kind = "report")
    => \A s \in StudentsOf(report_content') :
          report_content'.students[s].overall = "classes"
          => report_content'.students[s].classes_attended =
                Cardinality(AttendedPairs(report_content', s))

C23_ClassesAttendedCountsPairs == [][ClassesAttendedCountsPairs]_vars

\* a report in which a student attended one class of two: their session of
\* the date began after one of the two records had ended
C23_Witness ==
    /\ report_content.kind = "report"
    /\ report_content.total_classes_held = 2
    /\ \E s \in StudentsOf(report_content) :
          /\ report_content.students[s].overall = "classes"
          /\ report_content.students[s].classes_attended = 1
          /\ \E t \in attendance_staff, r \in attendance_students :
                /\ r.reg_no = s
                /\ r.date = t.date
                /\ t.time_out # NULL
                /\ r.time_in > t.time_out

(***************************************************************************)
(* C24: in the course report the percentage is classes_attended * 100 /    *)
(* total_classes_held when total_classes_held > 0 (3 of 4 gives 75.00),    *)
(* and when total_classes_held = 0 nothing is divided and the attendance   *)
(* is reported as N/A.  Percentages are in hundredths of a percent, as     *)
(* printed: the printed value is the nearest to the quotient.              *)
(***************************************************************************)
\* p hundredths of a percent is the two-decimal value nearest to a * 100 / t
NearestHundredth(p, a, t) ==
    /\ 2 * (p * t - a * 10000) <= t
    /\ 2 * (a * 10000 - p * t) <= t

PercentageIsTheQuotient ==
    (report_content' # report_content /\ report_content'.kind = "report")
    => /\ \A s \in StudentsOf(report_content') :
             LET line == report_content'.students[s]
                 total == report_content'.total_classes_held
             IN IF total > 0
                THEN /\ line.overall = "classes"
                     /\ NearestHundredth(line.percentage, line.classes_attended, total)
                     /\ (line.classes_attended * 10000) % total = 0
                        => line.percentage * total = line.classes_attended * 10000
                ELSE /\ line.overall = "N/A"
                     /\ DOMAIN line = {"daily_status", "overall"}
       /\ Percentage(3, 4) = 7500

C24_PercentageIsTheQuotient == [][PercentageIsTheQuotient]_vars

\* a report that prints 50.00% for a student who attended 1 class of 2
C24_Witness ==
    /\ report_content.kind = "report"
    /\ report_content.total_classes_held = 2
    /\ \E s \in StudentsOf(report_content) :
          /\ report_content.students[s].overall = "classes"
          /\ report_content.students[s].classes_attended = 1
          /\ report_content.students[s].percentage = 5000

(***************************************************************************)
(* C25: a date on which a student has no session row left (the cleanup     *)
(* deleted the open session that was their only one of that date) adds     *)
(* nothing to the student's classes_attended, and when that date is today  *)
(* the student is reported Absent / Exited.                                *)
(***************************************************************************)
\* the dates on which the student has a session row
DatesWithSession(s) == {r.date : r \in {x \in attendance_students : x.reg_no = s}}

DateWithoutRowCountsNothing ==
    (report_content' # report_content /\ report_content'.kind = "report")
    => \A s \in StudentsOf(report_content') :
          LET line == report_content'.students[s]
          IN /\ today \notin DatesWithSession(s) => line.daily_status = "Absent / Exited"
             /\ line.overall = "classes"
                => line.classes_attended <=
                      Cardinality({<<t.date, t.hour>> :
                                     t \in {x \in StaffRowsOf(report_content') :
                                              x.date \in DatesWithSession(s)}})

C25_DateWithoutRowCountsNothing == [][DateWithoutRowCountsNothing]_vars

\* the cleanup has deleted the only session in the store, an open one of
\* today, and the report made afterwards, on a day with a class held, shows
\* every student Absent / Exited with no class attended
C25_Witness ==
    /\ report_content.kind = "report"
    /\ cleanup_pc = "exited"
    /\ printed = "Student cleanup done"
    /\ attendance_students = {}
    /\ next_student_id = 2
    /\ \E t \in attendance_staff : t.date = today
    /\ \A s \in StudentsOf(report_content) :
          /\ report_content.students[s].daily_status = "Absent / Exited"
          /\ report_content.students[s].overall = "classes"
          /\ report_content.students[s].classes_attended = 0

(***************************************************************************)
(* C26: the course report is read-only.  Whatever the store holds and      *)
(* whatever the course_id, the rows of attendance_students and of          *)
(* attendance_staff, the id counters and the schedule are the same after   *)
(* generate_course_report as before it.                                    *)
(***************************************************************************)
ReportIsReadOnly ==
    report_content' # report_content
    => /\ attendance_students' = attendance_students
       /\ attendance_staff' = attendance_staff
       /\ next_student_id' = next_student_id
       /\ next_staff_id' = next_staff_id
       /\ class_schedule' = class_schedule

C26_ReportIsReadOnly == [][ReportIsReadOnly]_vars

\* a report was generated while both tables hold rows, an open session of
\* today and an open record of today among them
C26_Witness ==
    /\ report_content.kind = "report"
    /\ \E r \in attendance_students : r.date = today /\ r.time_out = NULL
    /\ \E r \in attendance_staff : r.date = today /\ r.time_out = NULL
    /\ class_schedule = schedule_data

(***************************************************************************)
(* C27: several sessions a day are allowed.  Once a student's open session *)
(* has been closed by mark_student_exit, a further mark_student_entry on   *)
(* the same date is not refused: it succeeds and adds a new open row,      *)
(* while the closed row stays in the store as it is.                       *)
(***************************************************************************)
\* the closed sessions of (reg_no, d)
ClosedSessionsOf(reg_no, d) ==
    {r \in attendance_students : r.reg_no = reg_no /\ r.date = d /\ r.time_out # NULL}

EntryAfterExitAddsSession ==
    \A p \in Procs :
        /\ ( /\ Calls(p, "mark_student_entry")
             /\ ClosedSessionsOf(user_id'[p], today) # {}
             /\ OpenSessionsOf(user_id'[p], today) = {} )
           => pc'[p] = "se_insert"
        /\ ( /\ pc[p] = "se_insert"
             /\ pc'[p] # "se_insert"
             /\ ClosedSessionsOf(user_id[p], l_today[p]) # {} )
           => /\ result'[p] = ENTRY_MARKED
              /\ attendance_students \subseteq attendance_students'
              /\ \E r \in attendance_students' \ attendance_students :
                    /\ r.reg_no = user_id[p]
                    /\ r.date = l_today[p]
                    /\ r.time_out = NULL

C27_EntryAfterExitAddsSession == [][EntryAfterExitAddsSession]_vars

\* a student entered, exited and later entered again on one date: the store
\* holds the closed session and the open one that began after it ended
C27_Witness ==
    \E p \in Procs :
        /\ Returned(p, "mark_student_entry")
        /\ result[p] = ENTRY_MARKED
        /\ \A q \in Procs \ {p} : pc[q] = "idle" /\ result[q] = None
        /\ \E c \in ClosedSessionsOf(user_id[p], l_today[p]) :
           \E o \in OpenSessionsOf(user_id[p], l_today[p]) :
              /\ c.id < o.id
              /\ c.time_out < o.time_in

(***************************************************************************)
(* C28: staff attendance is strictly time-windowed.  mark_staff_entry for  *)
(* an hour is accepted only when the current time lies in the window of    *)
(* that hour in the class schedule, from start_time minus                  *)
(* early_entry_minutes up to entry_deadline, and is rejected outside it.   *)
(***************************************************************************)
\* now lies in the entry window of the slot
InEntryWindow(slot, now) ==
    /\ slot.start_time - slot.early_entry_minutes * 60 <= now
    /\ now <= slot.entry_deadline

StaffEntryIsTimeWindowed ==
    \A p \in Procs :
        (CallsStaffEntry(p) /\ result'[p] = STAFF_ENTRY_MARKED)
        => \E slot \in class_schedule :
              /\ slot.hour_name = hour'[p]
              /\ InEntryWindow(slot, TimeOfDay(clock))

C28_StaffEntryIsTimeWindowed == [][StaffEntryIsTimeWindowed]_vars

(***************************************************************************)
(* C29: the seed of the schedule is idempotent and the schedule is         *)
(* read-only afterwards.  init_database inserts the eight class-hour slots *)
(* only when the schedule is empty; run again it leaves the schedule as it *)
(* is; no operation of the portals, no phase of the cleanup and no report  *)
(* changes the schedule; and get_class_schedule lists the slots by         *)
(* start_time.                                                             *)
(***************************************************************************)
\* get_class_schedule() returns every slot of the schedule once, by ascending
\* start_time
ListedByStartTime ==
    \A schedule \in {GetClassSchedule(class_schedule)} :
       /\ Len(schedule) = Cardinality(class_schedule)
       /\ {schedule[i].hour_name : i \in 1..Len(schedule)} =
             {r.hour_name : r \in class_schedule}
       /\ \A i, j \in 1..Len(schedule) :
             i < j => \/ schedule[i].start_time.hour < schedule[j].start_time.hour
                      \/ /\ schedule[i].start_time.hour = schedule[j].start_time.hour
                         /\ schedule[i].start_time.minute <= schedule[j].start_time.minute

ScheduleIsSeededOnce ==
    /\ class_schedule' # class_schedule
       => /\ class_schedule = {}
          /\ Cardinality(class_schedule') = 8
          /\ UNCHANGED <<store, locals, batch, script>>
    /\ class_schedule # {}
       => /\ SeedIfEmpty(class_schedule) = class_schedule
          /\ Cardinality(class_schedule) = 8
    /\ ListedByStartTime

C29_ScheduleIsSeededOnce == [][ScheduleIsSeededOnce]_vars

\* the schedule holds its eight slots after staff hours were marked, the
\* cleanup ran to its end and a report was generated
C29_Witness ==
    /\ Cardinality(class_schedule) = 8
    /\ attendance_staff # {}
    /\ cleanup_pc = "exited"
    /\ report_content.kind = "report"

(***************************************************************************)
(* C30: every entry or exit write is gated.  A terminal calls              *)
(* mark_student_entry/exit or mark_staff_entry/exit only in a request of   *)
(* handle_attendance in which, before the call, the liveness test passed   *)
(* (the test being enabled), the recognition returned a known identity     *)
(* whose record was found, and the user either confirmed that identity or  *)
(* typed an identity that the face of the frame was verified against; the  *)
(* call is made for the identity so confirmed or verified.                 *)
(***************************************************************************)
\* the identities with a registered face in the portal of terminal p
RegisteredIn(p) == IF current_user_type[p] = "student" THEN Students ELSE Staff

\* the operation the portal's button stands for
OperationOf(p, attendance_type) ==
    IF current_user_type[p] = "student"
    THEN (IF attendance_type = "entry" THEN "mark_student_entry" ELSE "mark_student_exit")
    ELSE (IF attendance_type = "entry" THEN "mark_staff_entry" ELSE "mark_staff_exit")

CallsAreGated ==
    \A p \in Procs :
        (pc[p] = "idle" /\ pc'[p] # "idle")
        => /\ request[p].outcome = "call"
           /\ ENABLE_LIVENESS_CHECK => request[p].live = 1
           /\ request[p].user_id \in RegisteredIn(p)
           /\ request[p].record = "row"
           /\ \/ /\ request[p].confirm
                 /\ user_id'[p] = request[p].user_id
              \/ /\ ~request[p].confirm
                 /\ request[p].manual_id \in RegisteredIn(p)
                 /\ request[p].matches
                 /\ user_id'[p] = request[p].manual_id
           /\ op'[p] = OperationOf(p, request[p].attendance_type)

C30_CallsAreGated == [][CallsAreGated]_vars

\* a student recognised as somebody else said no, typed their own register
\* number, was verified against the frame and has been entered under it
C30_Witness ==
    \E p \in Procs :
        /\ Returned(p, "mark_student_entry")
        /\ result[p] = ENTRY_MARKED
        /\ ~request[p].confirm
        /\ request[p].matches
        /\ request[p].manual_id # request[p].user_id
        /\ user_id[p] = request[p].manual_id
        /\ OpenSessionsOf(request[p].manual_id, today) # {}
        /\ OpenSessionsOf(request[p].user_id, today) = {}

(***************************************************************************)
(* C31: operations on different identities are independent.  A step of a   *)
(* Controller operation called for identity A leaves every row of every    *)
(* other identity as it was, in both tables, and what the step answers is  *)
(* settled by A's own rows: the entry is refused exactly when A has an     *)
(* open session today, the exit finds no session exactly when A has none   *)
(* and picks one of A's, the staff entry is refused exactly when A has a   *)
(* record of the hour today, and the staff exit fails exactly when A has   *)
(* no open record today.                                                   *)
(***************************************************************************)
\* the rows of the two tables that belong to somebody other than a
RowsOfOthers(sessions, rows, a) ==
    <<{r \in sessions : r.reg_no # a}, {r \in rows : r.staff_id # a}>>

IdentitiesAreIndependent ==
    \A p \in Procs :
        RunsStatement(p) =>
          /\ RowsOfOthers(attendance_students', attendance_staff', user_id'[p])
               = RowsOfOthers(attendance_students, attendance_staff, user_id'[p])
          /\ Calls(p, "mark_student_entry")
             => (result'[p] = DUPLICATE_OPEN_SESSION
                   <=> OpenSessionsOf(user_id'[p], today) # {})
          /\ Calls(p, "mark_student_exit")
             => /\ result'[p] = NO_OPEN_SESSION
                     <=> OpenSessionsOf(user_id'[p], today) = {}
                /\ pc'[p] = "sx_update"
                     => \E r \in OpenSessionsOf(user_id'[p], today) :
                           session_id'[p] = r.id
          /\ CallsStaffEntry(p)
             => /\ result'[p] = DUPLICATE_HOUR_RECORD
                     <=> RecordsOf(user_id[p], today, hour'[p]) # {}
                /\ result'[p] = STAFF_ENTRY_MARKED
                     <=> RecordsOf(user_id[p], today, hour'[p]) = {}
          /\ Calls(p, "mark_staff_exit")
             => /\ result'[p] = STAFF_NO_OPEN_SESSION
                     <=> OpenRecordsOf(user_id'[p], today) = {}
                /\ result'[p] = STAFF_EXIT_MARKED
                     <=> OpenRecordsOf(user_id'[p], today) # {}

C31_IdentitiesAreIndependent == [][IdentitiesAreIndependent]_vars

\* a student was entered while another student had an open session of the
\* same date, or a staff member was marked for an hour a colleague holds a
\* record of, and the other's row is in the store as it was
C31_Witness ==
    \/ \E p \in Procs :
          /\ Returned(p, "mark_student_entry") /\ result[p] = ENTRY_MARKED
          /\ \E r \in attendance_students, o \in attendance_students :
                /\ r.reg_no = user_id[p] /\ r.date = l_today[p] /\ r.time_out = NULL
                /\ o.reg_no # user_id[p] /\ o.date = l_today[p] /\ o.time_out = NULL
                /\ o.id < r.id
    \/ \E p \in Procs :
          /\ pc[p] = "done" /\ op[p] = "mark_staff_entry"
          /\ result[p] = STAFF_ENTRY_MARKED
          /\ \E r \in attendance_staff, o \in attendance_staff :
                /\ r.staff_id = user_id[p] /\ r.date = l_today[p] /\ r.hour = hour[p]
                /\ o.staff_id # user_id[p] /\ o.date = l_today[p] /\ o.hour = hour[p]
                /\ o.id < r.id

(***************************************************************************)
(* C32: mark_student_exit returns success only if it closed a session.     *)
(* Whatever the cleanup script or another exit did between its SELECT and  *)
(* its UPDATE, a call that returns "Exit marked" has set time_out on a row *)
(* that was in the store and open immediately before the UPDATE and that   *)
(* is in the store, closed, when the call has committed.                   *)
(***************************************************************************)
ExitSuccessClosedASession ==
    \A p \in Procs :
        (pc[p] = "sx_update" /\ pc'[p] = "done" /\ result'[p] = EXIT_MARKED)
        => \E r \in attendance_students :
              /\ r.id = session_id[p]
              /\ r.time_out = NULL
              /\ [r EXCEPT !.time_out = clock] \in attendance_students'

C32_ExitSuccessClosedASession == [][ExitSuccessClosedASession]_vars

(***************************************************************************)
(* C33: in every reachable state every staff record whose time_out is set  *)
(* has status Present and every record with status Absent has time_out     *)
(* unset, also when mark_staff_exit is called after the cleanup script has *)
(* run on the same date.                                                   *)
(***************************************************************************)
C33_ClosedIsPresentAbsentIsOpen ==
    \A r \in attendance_staff :
        /\ r.time_out # NULL => r.status = "Present"
        /\ r.status = "Absent" => r.time_out = NULL

(***************************************************************************)
(* C34: no operation touches a past date.  mark_student_exit,              *)
(* mark_staff_exit and both phases of the cleanup script change or delete  *)
(* only rows whose date is the current date: every row of an earlier date  *)
(* is in its table, unchanged, after every step, so a row that is open     *)
(* when the date advances stays open and unchanged from then on.           *)
(***************************************************************************)
PastRowsAreUntouched ==
    /\ \A r \in attendance_students : r.date < today => r \in attendance_students'
    /\ \A r \in attendance_staff : r.date < today => r \in attendance_staff'

C34_PastRowsAreUntouched == [][PastRowsAreUntouched]_vars

(***************************************************************************)
(* C35: in every report of main.py and for every enrolled student,         *)
(* classes_attended is at most total_classes_held, so the percentage       *)
(* printed lies between 0.00 and 100.00.                                   *)
(***************************************************************************)
C35_AttendedAtMostHeld ==
    \A s \in StudentsOf(report_content) :
        report_content.students[s].overall = "classes"
        => /\ 0 <= report_content.students[s].classes_attended
           /\ report_content.students[s].classes_attended
                <= report_content.total_classes_held
           /\ 0 <= report_content.students[s].percentage
           /\ report_content.students[s].percentage <= 10000

\* a report of two classes held on one date: one student attended both, the
\* other came after the first had ended and attended one
C35_Witness ==
    /\ report_content.kind = "report"
    /\ report_content.total_classes_held = 2
    /\ \E r \in attendance_staff, o \in attendance_staff :
          r.date = o.date /\ r.hour # o.hour
    /\ \E s \in StudentsOf(report_content), u \in StudentsOf(report_content) :
          /\ report_content.students[s].classes_attended = 2
          /\ report_content.students[s].percentage = 10000
          /\ report_content.students[u].classes_attended = 1
          /\ report_content.students[u].percentage = 5000

(***************************************************************************)
(* C36: the two report implementations agree.  Run on the same store for   *)
(* the same course, generate_course_report of generate_report.py and       *)
(* generate_course_report of main.py report the same total_classes_held    *)
(* and, for every enrolled student, the same daily_status and the same     *)
(* classes_attended.  The store does not change between the two reports.   *)
(***************************************************************************)
\* what a report says of student s: today's status and the overall count
SaidOf(r, s) ==
    IF r.students[s].overall = "classes"
    THEN <<r.students[s].daily_status, r.students[s].classes_attended>>
    ELSE <<r.students[s].daily_status, "N/A">>

C36_ReportsAgree ==
    (/\ report_content.kind = "report"
     /\ report_text.kind = "report"
     /\ report_content.course_id = report_text.course_id)
    => /\ report_content.total_classes_held = report_text.total_classes_held
       /\ StudentsOf(report_content) = StudentsOf(report_text)
       /\ \A s \in StudentsOf(report_content) :
             SaidOf(report_content, s) = SaidOf(report_text, s)

(***************************************************************************)
(* C37: registration keeps identities unique and the identity cache in     *)
(* step with the store.  add_student / add_staff called with a reg_no /    *)
(* staff_id that is registered already returns False and changes neither   *)
(* the tables nor the cached id lists; and when add_student / add_staff    *)
(* returns True, the cached student and staff id lists of the terminal are *)
(* the identities in the tables.                                           *)
(***************************************************************************)
\* this step is p's call of add_student / add_staff for an identity in use,
\* on a server that answers
RegistersAgain(p) ==
    /\ server = "up"
    /\ \/ Calls(p, "add_student") /\ user_id'[p] \in students
       \/ Calls(p, "add_staff") /\ user_id'[p] \in staff

RegistrationKeepsCacheInStep ==
    \A p \in Procs :
        /\ RegistersAgain(p)
           => /\ added'[p] = "False"
              /\ UNCHANGED <<students, staff, known_face_ids_students,
                             known_face_ids_staff>>
        /\ (added[p] # "True" /\ added'[p] = "True")
           => /\ user_id[p] \in students' \cup staff'
              /\ known_face_ids_students'[p] = students'
              /\ known_face_ids_staff'[p] = staff'

C37_RegistrationKeepsCacheInStep == [][RegistrationKeepsCacheInStep]_vars

=============================================================================
